---- MODULE Spec2Model ----
(***************************************************************************)
(* Scroll-progress broadcast store and the section drivers that read and   *)
(* write it (adam-husain/portfolio).                                       *)
(*                                                                         *)
(* Numbers: a progress or an opacity x in [0,1] is the integer x * Scale.  *)
(* Object identity (the reference getSnapshot returns) is a small integer; *)
(* a freshly allocated object gets an identity no live holder still has.   *)
(***************************************************************************)
EXTENDS Integers, Sequences, FiniteSets, TLC

\* ---------------------------------------------------------------- bounds
MaxListeners == 2
MaxFrames == 2

\* ------------------------------------------------------------- constants
Scale == 100
StoreValues == {0, 50}
MoonValues == {0, 10}
TeardownValues == {100}
PageLoadValues == {0}
PageValues == {100}
Keys == {"section2", "section3", "section4"}
ListenerNames == <<"L1", "L2", "L3", "L4">>
EnvListeners == {ListenerNames[i] : i \in 1..MaxListeners}
Components == {"Rocket3D", "MoonReveal", "Satellite3D", "CloudAtmosphere"}
Drivers == {"Rocket3D", "MoonReveal", "Satellite3D", "ReentrySection",
            "MyFace", "CloudAtmosphere"}
Elements == {"mask", "moon", "glow", "moonGlow", "moonText", "rocket",
             "satellite", "satelliteText", "reentryText", "faceWrapper",
             "cloud"}
Refs == 0..2
NoRef == 99

VARIABLES
  globalState,   \* scrollProgress.ts: the ScrollProgressState object's fields
  globalRef,     \* identity of the object globalState is bound to
  listeners,     \* the listeners Set, in insertion order
  pending,       \* entries listeners.forEach has still to visit
  handles,       \* listeners for which subscribe returned an unsubscribe handle
  heldRef,       \* reference a consumer got from its last getSnapshot call
  readFresh,     \* TRUE while no update call was made since that getSnapshot
  call,          \* record of the update call in progress or last completed
  cancelled,     \* listeners whose handle was called since they last subscribed
  needsRender,   \* components whose store listener scheduled a re-render
  stateDirty,    \* components with a pending setState re-render
  mounted,       \* driver components currently mounted
  triggers,      \* live ScrollTrigger observers and window listeners
  rafPending,    \* callbacks queued with requestAnimationFrame
  moon,          \* MoonReveal's refs
  rocket,        \* Rocket3D's refs and state
  satellite,     \* Satellite3D's refs
  face,          \* MyFace's refs
  cloud,         \* CloudAtmosphere's refs and state
  dom,           \* what the drivers last wrote to their visual elements
  keyWriters,    \* per store key, the drivers that called its update function
  elemWriters,   \* per visual element, the drivers that wrote it
  late,          \* callbacks that ran after their driver was torn down
  staleReads,    \* drivers whose frame callback used a progress the store no longer held
  frames,        \* animation frames run so far
  calc,          \* a call of a range or fade helper: arguments and results
  smooth,        \* a smoothed value and the target it follows
  form,          \* the contact form: status, fields, request in flight
  cloudscape,    \* CloudscapeSection's refs, rendered section6 and text
  typewriter,    \* TypewriterText's state
  loading,       \* LoadingScreen's provider state and timers
  trail          \* Rocket3D's trail list and the refs its interval reads

storeVars == <<globalState, globalRef, listeners, pending, handles, heldRef,
               readFresh, call, cancelled, needsRender>>

reactVars == <<stateDirty, mounted, triggers, rafPending>>

driverVars == <<moon, rocket, satellite, face, cloud, dom>>

ghostVars == <<keyWriters, elemWriters, late, staleReads, frames>>

sectionVars == <<cloudscape, typewriter, loading, trail>>

auxVars == <<calc, smooth, form, sectionVars>>

vars == <<storeVars, reactVars, driverVars, ghostVars, auxVars>>

\* ----------------------------------------------------------- sequences
Range(s) == {s[i] : i \in DOMAIN s}

Without(s, x) == SelectSeq(s, LAMBDA y : y # x)

IsEnv(l) == l \in EnvListeners

\* ------------------------------------------------------------ the store
FreshRef == CHOOSE r \in Refs : r \notin {globalRef, heldRef}

\* listeners.add(listener): a Set keeps one entry per value, appended last
SetAdd(s, x) == IF x \in Range(s) THEN s ELSE Append(s, x)

\* listeners.delete(listener)
SetDelete(s, x) == Without(s, x)

\* listeners.forEach(listener => listener()): the environment's listeners are
\* visited one by one (they may re-enter subscribe/unsubscribe); a React
\* component's listener only schedules a re-render of its component.
\* faulty variant: the iteration starts after the first entry
notifyListeners_SkipFirst ==
  /\ pending' = IF listeners = << >> THEN << >>
                 ELSE SelectSeq(Tail(listeners), IsEnv)
  /\ needsRender' = needsRender \cup (Range(listeners) \cap Components)

notifyListeners ==
  /\ pending' = SelectSeq(listeners, IsEnv)
  /\ needsRender' = needsRender \cup (Range(listeners) \cap Components)

\* faulty variant: no comparison with the stored value
updateSection2Progress_NoGuard(progress) ==
  /\ globalState' = [globalState EXCEPT !.section2 = progress]
  /\ globalRef' = FreshRef
  /\ notifyListeners

updateSection2Progress(progress) ==
  IF globalState.section2 # progress
    THEN /\ globalState' = [globalState EXCEPT !.section2 = progress]
         /\ globalRef' = FreshRef
         /\ notifyListeners
    ELSE UNCHANGED <<globalState, globalRef, pending, needsRender>>

\* faulty variant: the state object is mutated in place
updateSection3Progress_InPlace(progress) ==
  IF globalState.section3 # progress
    THEN /\ globalState' = [globalState EXCEPT !.section3 = progress]
         /\ globalRef' = globalRef
         /\ notifyListeners
    ELSE UNCHANGED <<globalState, globalRef, pending, needsRender>>

updateSection3Progress(progress) ==
  IF globalState.section3 # progress
    THEN /\ globalState' = [globalState EXCEPT !.section3 = progress]
         /\ globalRef' = FreshRef
         /\ notifyListeners
    ELSE UNCHANGED <<globalState, globalRef, pending, needsRender>>

\* faulty variant: the progress is stored as a percentage
updateSection4Progress_Percent(progress) ==
  IF globalState.section4 # progress
    THEN /\ globalState' = [globalState EXCEPT !.section4 = progress * 100]
         /\ globalRef' = FreshRef
         /\ notifyListeners
    ELSE UNCHANGED <<globalState, globalRef, pending, needsRender>>

\* faulty variant: the new object is built without spreading the old one
updateSection4Progress_NoSpread(progress) ==
  IF globalState.section4 # progress
    THEN /\ globalState' = [section2 |-> 0, section3 |-> 0, section4 |-> progress]
         /\ globalRef' = FreshRef
         /\ notifyListeners
    ELSE UNCHANGED <<globalState, globalRef, pending, needsRender>>

updateSection4Progress(progress) ==
  IF globalState.section4 # progress
    THEN /\ globalState' = [globalState EXCEPT !.section4 = progress]
         /\ globalRef' = FreshRef
         /\ notifyListeners
    ELSE UNCHANGED <<globalState, globalRef, pending, needsRender>>

updateSectionProgress(key, progress) ==
  CASE key = "section2" -> updateSection2Progress(progress)
    [] key = "section3" -> updateSection3Progress(progress)
    [] key = "section4" -> updateSection4Progress(progress)

\* -------------------------------------------- the store's callers (SpecStore)
NoCall == [n |-> 0, key |-> "none", value |-> 0, changed |-> FALSE,
           atCall |-> {}, invoked |-> [l \in EnvListeners |-> 0],
           removed |-> {}, sawNew |-> TRUE, repeat |-> FALSE]

\* a caller invokes one of the update functions
Update(key, progress) ==
  /\ pending = << >>
  /\ updateSectionProgress(key, progress)
  /\ call' = [n |-> 1 - call.n, key |-> key, value |-> progress,
              changed |-> (globalState[key] # progress),
              atCall |-> Range(listeners),
              invoked |-> [l \in EnvListeners |-> 0],
              removed |-> {}, sawNew |-> TRUE,
              repeat |-> (call.key = key /\ call.value = progress)]
  /\ readFresh' = FALSE
  /\ UNCHANGED <<listeners, handles, heldRef, cancelled>>
  /\ UNCHANGED <<reactVars, driverVars, ghostVars>>
  /\ UNCHANGED auxVars

subscribe(listener) ==
  /\ pending = << >>
  /\ listeners' = SetAdd(listeners, listener)
  /\ handles' = handles \cup {listener}
  /\ cancelled' = cancelled \ {listener}
  /\ UNCHANGED <<globalState, globalRef, pending, heldRef, readFresh, call,
                 needsRender>>
  /\ UNCHANGED <<reactVars, driverVars, ghostVars>>
  /\ UNCHANGED auxVars

\* faulty variant: the handle deletes nothing
unsubscribe_NoDelete(listener) ==
  /\ pending = << >>
  /\ listener \in handles
  /\ listeners' = listeners
  /\ cancelled' = cancelled \cup {listener}
  /\ UNCHANGED <<globalState, globalRef, pending, handles, heldRef, readFresh,
                 call, needsRender>>
  /\ UNCHANGED <<reactVars, driverVars, ghostVars>>
  /\ UNCHANGED auxVars

\* the handle subscribe returned: () => listeners.delete(listener)
unsubscribe(listener) ==
  /\ pending = << >>
  /\ listener \in handles
  /\ listeners' = SetDelete(listeners, listener)
  /\ cancelled' = cancelled \cup {listener}
  /\ UNCHANGED <<globalState, globalRef, pending, handles, heldRef, readFresh,
                 call, needsRender>>
  /\ UNCHANGED <<reactVars, driverVars, ghostVars>>
  /\ UNCHANGED auxVars

getSnapshot ==
  /\ heldRef' = globalRef
  /\ readFresh' = TRUE
  /\ UNCHANGED <<globalState, globalRef, listeners, pending, handles, call,
                 cancelled, needsRender>>
  /\ UNCHANGED <<reactVars, driverVars, ghostVars>>
  /\ UNCHANGED auxVars

\* forEach visits its next entry: the listener runs, and may itself call
\* subscribe or an unsubscribe handle before it returns.
Invoked(l) == [call EXCEPT !.invoked[l] = IF @ < 2 THEN @ + 1 ELSE @,
                           !.sawNew = @ /\ globalState[call.key] = call.value]

ListenerReturns ==
  /\ pending # << >>
  /\ pending' = Tail(pending)
  /\ call' = Invoked(Head(pending))
  /\ UNCHANGED <<globalState, globalRef, listeners, handles, heldRef,
                 readFresh, cancelled, needsRender>>
  /\ UNCHANGED <<reactVars, driverVars, ghostVars>>
  /\ UNCHANGED auxVars

ListenerSubscribes(other) ==
  /\ pending # << >>
  /\ listeners' = SetAdd(listeners, other)
  /\ pending' = IF other \in Range(listeners)
                  THEN Tail(pending) ELSE Append(Tail(pending), other)
  /\ handles' = handles \cup {other}
  /\ call' = Invoked(Head(pending))
  /\ cancelled' = cancelled \ {other}
  /\ UNCHANGED <<globalState, globalRef, heldRef, readFresh, needsRender>>
  /\ UNCHANGED <<reactVars, driverVars, ghostVars>>
  /\ UNCHANGED auxVars

ListenerUnsubscribes(other) ==
  /\ pending # << >>
  /\ other \in handles
  /\ listeners' = SetDelete(listeners, other)
  /\ pending' = Without(Tail(pending), other)
  /\ call' = [Invoked(Head(pending)) EXCEPT !.removed = @ \cup {other}]
  /\ cancelled' = cancelled \cup {other}
  /\ UNCHANGED <<globalState, globalRef, handles, heldRef, readFresh,
                 needsRender>>
  /\ UNCHANGED <<reactVars, driverVars, ghostVars>>
  /\ UNCHANGED auxVars

StoreInit ==
  /\ globalState = [section2 |-> 0, section3 |-> 0, section4 |-> 0]
  /\ globalRef = 0
  /\ listeners = << >>
  /\ pending = << >>
  /\ handles = {}
  /\ heldRef = NoRef
  /\ readFresh = FALSE
  /\ call = NoCall
  /\ cancelled = {}
  /\ needsRender = {}

\* ------------------------------------------------------------- numbers
Max(a, b) == IF a >= b THEN a ELSE b

Min(a, b) == IF a <= b THEN a ELSE b

\* faulty variant: the result is not clamped to the output range
mapRange_NoClamp(value, inMin, inMax, outMin, outMax) ==
  IF inMax = inMin THEN outMin
  ELSE ((value - inMin) * (outMax - outMin)) \div (inMax - inMin) + outMin

\* faulty variant: the input is measured from the wrong end of its range
mapRange_FromEnd(value, inMin, inMax, outMin, outMax) ==
  IF inMax = inMin THEN outMin
  ELSE LET mapped == ((inMax - value) * (outMax - outMin)) \div (inMax - inMin)
                       + outMin
       IN  Max(outMin, Min(outMax, mapped))

\* animationTiming: mapRange(value, inMin, inMax, outMin, outMax)
mapRange(value, inMin, inMax, outMin, outMax) ==
  IF inMax = inMin THEN outMin
  ELSE LET mapped == ((value - inMin) * (outMax - outMin)) \div (inMax - inMin)
                       + outMin
       IN  Max(outMin, Min(outMax, mapped))

\* faulty variant: the fade-out ignores where its window starts
calculateFadeOut_FromZero(otherSectionProgress, fadeStart, fadeEnd) ==
  Max(0, Scale - mapRange(otherSectionProgress, 0, fadeEnd, 0, Scale))

\* faulty variant: the fade-out is eased instead of linear
calculateFadeOut_Eased(otherSectionProgress, fadeStart, fadeEnd) ==
  LET m == mapRange(otherSectionProgress, fadeStart, fadeEnd, 0, Scale)
  IN  Max(0, Scale - (m * m) \div Scale)

\* animationTiming: calculateFadeOut
calculateFadeOut(otherSectionProgress, fadeStart, fadeEnd) ==
  Max(0, Scale - mapRange(otherSectionProgress, fadeStart, fadeEnd, 0, Scale))

\* animationTiming: calculateFadeIn
calculateFadeIn(progress, fadeStart, fadeEnd) ==
  mapRange(progress, fadeStart, fadeEnd, 0, Scale)

\* 1 - (1 - t)^2, the quadratic ease-out the text fades use
EaseOutQuad(t) == Scale - ((Scale - t) * (Scale - t)) \div Scale

\* faulty variant: the blend factor is applied ten times over
SmoothStep_Overshoot(current, target, pct) ==
  current + ((target - current) * pct) \div 10

\* current += (target - current) * factor, with factor = pct / 100; the
\* result is quantised to 1 / Scale on the target's side of the exact value
SmoothStep(current, target, pct) ==
  LET d == target - current
  IN  IF d >= 0 THEN current + (d * pct + 99) \div 100
      ELSE current - (((-d) * pct + 99) \div 100)

SMOOTH_FACTOR == 12
FadeOutStart == 0
FadeOutEnd == 25

\* ------------------------------------------------------ bookkeeping
Wrote(driver, elems) ==
  elemWriters' = [e \in Elements |->
                    IF e \in elems THEN elemWriters[e] \cup {driver}
                    ELSE elemWriters[e]]

WroteKey(driver, key) ==
  keyWriters' = [keyWriters EXCEPT ![key] = @ \cup {driver}]

\* a frame callback of the driver uses the mirrored progress `used` while the
\* store holds `stored`
ReadMirror(driver, used, stored) ==
  staleReads' = IF used = stored THEN staleReads ELSE staleReads \cup {driver}

\* a callback of the driver runs; it is late when the driver is torn down
Ran(driver, callback) ==
  late' = IF driver \in mounted THEN late ELSE late \cup {callback}

\* one more animation frame, within the budget the model explores; a run
\* that starts with frames = -1 does not count its frames
Frame ==
  IF frames = -1 THEN frames' = frames
  ELSE frames < MaxFrames /\ frames' = frames + 1

\* a driver's call of an update function; nothing else of the store moves
StoreCall(key, progress) ==
  /\ updateSectionProgress(key, progress)
  /\ UNCHANGED <<listeners, handles, heldRef, readFresh, call, cancelled>>

\* a component mounts: useSyncExternalStore subscribes it
Subscribed(component) ==
  /\ listeners' = SetAdd(listeners, component)
  /\ UNCHANGED <<handles, heldRef, readFresh, call, cancelled>>

\* a component unmounts: its subscription is removed
Unsubscribed(component) ==
  /\ listeners' = SetDelete(listeners, component)
  /\ UNCHANGED <<handles, heldRef, readFresh, call, cancelled>>

\* the re-renders a component has pending are dropped with it
Forgotten(component) ==
  /\ needsRender' = needsRender \ {component}
  /\ stateDirty' = stateDirty \ {component}

\* ------------------------------------------------------------ MoonReveal
MoonInit == [section3ProgressRef |-> 0, section4ProgressRef |-> 0,
             isSection3Active |-> FALSE, target |-> Scale, current |-> Scale,
             animationFrameRef |-> "null"]

\* mount: the store subscription, the section-4 ref effect, then the main
\* effect (initial state, requestAnimationFrame, the two ScrollTriggers)
MoonMount ==
  /\ "MoonReveal" \notin mounted
  /\ mounted' = mounted \cup {"MoonReveal"}
  /\ listeners' = SetAdd(listeners, "MoonReveal")
  /\ moon' = [MoonInit EXCEPT !.section4ProgressRef = globalState.section4,
                              !.animationFrameRef = "MoonReveal.animateSmooth"]
  /\ rafPending' = rafPending \cup {"MoonReveal.animateSmooth"}
  /\ triggers' = triggers \cup {"MoonReveal.trigger1", "MoonReveal.trigger2"}
  /\ UNCHANGED <<globalState, globalRef, pending, handles, heldRef, readFresh,
                 call, cancelled, needsRender, stateDirty>>
  /\ UNCHANGED <<rocket, satellite, face, cloud, dom, ghostVars>>
  /\ UNCHANGED auxVars

\* faulty variant: the loop keeps running the fade while section 3 is inactive
MoonLoopSkips_Never == FALSE

\* animateSmooth's early return
MoonLoopSkips == ~moon.isSection3Active

\* faulty variant: the loop never hides the mask
animateSmooth_MaskStays ==
  /\ "MoonReveal.animateSmooth" \in rafPending
  /\ Frame
  /\ Ran("MoonReveal", "MoonReveal.animateSmooth")
  /\ IF MoonLoopSkips
       THEN UNCHANGED <<moon, dom, elemWriters, staleReads>>
       ELSE LET current == SmoothStep(moon.current, moon.target, SMOOTH_FACTOR)
                s4p == moon.section4ProgressRef
                fadeOut == calculateFadeOut(s4p, FadeOutStart, FadeOutEnd)
            IN  /\ moon' = [moon EXCEPT !.current = current, !.target = fadeOut]
                /\ dom' = [dom EXCEPT !.moon = current, !.moonGlow = current,
                                      !.mask = Scale]
                /\ Wrote("MoonReveal", {"moon", "moonGlow", "mask"})
                /\ ReadMirror("MoonReveal", s4p, globalState.section4)
  /\ UNCHANGED <<storeVars, reactVars, rocket, satellite, face, cloud,
                 keyWriters>>
  /\ UNCHANGED auxVars

\* the per-frame loop
animateSmooth ==
  /\ "MoonReveal.animateSmooth" \in rafPending
  /\ Frame
  /\ Ran("MoonReveal", "MoonReveal.animateSmooth")
  /\ IF MoonLoopSkips
       THEN UNCHANGED <<moon, dom, elemWriters, staleReads>>
       ELSE LET current == SmoothStep(moon.current, moon.target, SMOOTH_FACTOR)
                s4p == moon.section4ProgressRef
                fadeOut == calculateFadeOut(s4p, FadeOutStart, FadeOutEnd)
            IN  /\ moon' = [moon EXCEPT !.current = current, !.target = fadeOut]
                /\ dom' = [dom EXCEPT !.moon = current, !.moonGlow = current,
                                      !.mask = IF current < 1 THEN 0 ELSE Scale]
                /\ Wrote("MoonReveal", {"moon", "moonGlow", "mask"})
                /\ ReadMirror("MoonReveal", s4p, globalState.section4)
  /\ UNCHANGED <<storeVars, reactVars, rocket, satellite, face, cloud,
                 keyWriters>>
  /\ UNCHANGED auxVars

\* a value CSS rejects: the assignment leaves the style as it was
NaN == -999

\* MoonReveal's own mapRange(p, min, max): (p - min) / (max - min) clamped
\* to [0, 1]; with min = max the quotient is -Infinity, NaN or +Infinity
MoonMapRange(p, min, max) ==
  IF max = min
    THEN IF p < min THEN 0 ELSE IF p > min THEN Scale ELSE NaN
    ELSE Max(0, Min(Scale, ((p - min) * Scale) \div (max - min)))

\* style.opacity = String(value)
Styled(old, value) == IF value = NaN THEN old ELSE value

\* trigger1.onUpdate, the text: Math.max(0, easedTextP * section3FadeOut);
\* Math.max and the product keep a NaN
MoonTextOpacity(p, s3p) ==
  LET easedTextP == EaseOutQuad(MoonMapRange(p, 50, 80))
      s3map == MoonMapRange(s3p, 50, 50)
  IN  IF s3map = NaN THEN NaN
      ELSE Max(0, (easedTextP * Max(0, Scale - s3map)) \div Scale)

\* trigger1.onUpdate: the section-2 reveal
MoonTrigger1(p) ==
  /\ "MoonReveal.trigger1" \in triggers
  /\ Ran("MoonReveal", "MoonReveal.trigger1")
  /\ LET s3p == moon.section3ProgressRef
         easedP == EaseOutQuad(p)
         textOpacity == MoonTextOpacity(p, s3p)
     IN  IF s3p <= 0
           THEN /\ moon' = [moon EXCEPT !.isSection3Active = FALSE,
                                        !.current = Scale, !.target = Scale]
                /\ dom' = [dom EXCEPT !.moon = Scale, !.mask = Scale,
                                      !.glow = easedP,
                                      !.moonText = Styled(@, textOpacity)]
                /\ Wrote("MoonReveal", {"mask", "moon", "glow", "moonText"})
           ELSE /\ UNCHANGED moon
                /\ dom' = [dom EXCEPT !.moonText = Styled(@, textOpacity)]
                /\ Wrote("MoonReveal", {"mask", "glow", "moonText"})
  /\ UNCHANGED <<storeVars, reactVars, rocket, satellite, face, cloud,
                 keyWriters, staleReads, frames>>
  /\ UNCHANGED auxVars

\* faulty variant: scrolling back leaves the smoothed opacity as it is
MoonTrigger2_NoReset(p) ==
  /\ "MoonReveal.trigger2" \in triggers
  /\ Ran("MoonReveal", "MoonReveal.trigger2")
  /\ IF p <= 0
       THEN /\ moon' = [moon EXCEPT !.section3ProgressRef = p,
                                    !.isSection3Active = FALSE]
            /\ dom' = [dom EXCEPT !.moon = Scale, !.moonGlow = 0,
                                  !.mask = Scale]
            /\ Wrote("MoonReveal", {"glow", "moonGlow", "moon", "mask"})
       ELSE /\ moon' = [moon EXCEPT !.section3ProgressRef = p,
                                    !.isSection3Active = TRUE]
            /\ dom' = [dom EXCEPT
                         !.moonText = Max(0, Scale - MoonMapRange(p, 20, 50))]
            /\ Wrote("MoonReveal", {"glow", "moonGlow", "moonText", "moon"})
  /\ UNCHANGED <<storeVars, reactVars, rocket, satellite, face, cloud,
                 keyWriters, staleReads, frames>>
  /\ UNCHANGED auxVars

\* trigger2.onUpdate: section 3, the moon moves to the corner
MoonTrigger2(p) ==
  /\ "MoonReveal.trigger2" \in triggers
  /\ Ran("MoonReveal", "MoonReveal.trigger2")
  /\ IF p <= 0
       THEN /\ moon' = [moon EXCEPT !.section3ProgressRef = p,
                                    !.isSection3Active = FALSE,
                                    !.target = Scale, !.current = Scale]
            /\ dom' = [dom EXCEPT !.moon = Scale, !.moonGlow = 0,
                                  !.mask = Scale]
            /\ Wrote("MoonReveal", {"glow", "moonGlow", "moon", "mask"})
       ELSE /\ moon' = [moon EXCEPT !.section3ProgressRef = p,
                                    !.isSection3Active = TRUE]
            /\ dom' = [dom EXCEPT
                         !.moonText = Max(0, Scale - MoonMapRange(p, 20, 50))]
            /\ Wrote("MoonReveal", {"glow", "moonGlow", "moonText", "moon"})
  /\ UNCHANGED <<storeVars, reactVars, rocket, satellite, face, cloud,
                 keyWriters, staleReads, frames>>
  /\ UNCHANGED auxVars

\* cleanup: if (animationFrameRef.current) cancelAnimationFrame(...)
MoonCancelFrame ==
  IF moon.animationFrameRef # "null"
    THEN rafPending \ {moon.animationFrameRef} ELSE rafPending

MoonUnmount ==
  /\ "MoonReveal" \in mounted
  /\ mounted' = mounted \ {"MoonReveal"}
  /\ triggers' = triggers \ {"MoonReveal.trigger1", "MoonReveal.trigger2"}
  /\ rafPending' = MoonCancelFrame
  /\ listeners' = SetDelete(listeners, "MoonReveal")
  /\ needsRender' = needsRender \ {"MoonReveal"}
  /\ UNCHANGED <<globalState, globalRef, pending, handles, heldRef, readFresh,
                 call, cancelled, stateDirty>>
  /\ UNCHANGED <<driverVars, ghostVars>>
  /\ UNCHANGED auxVars

\* -------------------------------------------------------- ReentrySection
ReentryTextStart == 55
ReentryTextEnd == 85

ReentryText(p) ==
  EaseOutQuad(mapRange(p, ReentryTextStart, ReentryTextEnd, 0, Scale))

\* mount: ScrollTrigger.create, then the immediate sync to trigger.progress
ReentryMount(p) ==
  /\ "ReentrySection" \notin mounted
  /\ mounted' = mounted \cup {"ReentrySection"}
  /\ triggers' = triggers \cup {"ReentrySection.trigger"}
  /\ stateDirty' = stateDirty \cup {"ReentrySection"}
  /\ StoreCall("section4", p)
  /\ WroteKey("ReentrySection", "section4")
  /\ UNCHANGED <<rafPending, driverVars, elemWriters, late, staleReads, frames>>
  /\ UNCHANGED auxVars

\* faulty variant: the re-entry observer reports into the satellite's key
ReentryTrigger_WrongKey(p) ==
  /\ "ReentrySection.trigger" \in triggers
  /\ Ran("ReentrySection", "ReentrySection.trigger")
  /\ stateDirty' = stateDirty \cup {"ReentrySection"}
  /\ StoreCall("section3", p)
  /\ WroteKey("ReentrySection", "section3")
  /\ dom' = [dom EXCEPT !.reentryText = ReentryText(p)]
  /\ Wrote("ReentrySection", {"reentryText"})
  /\ UNCHANGED <<mounted, triggers, rafPending, moon, rocket, satellite, face,
                 cloud, staleReads, frames>>
  /\ UNCHANGED auxVars

\* trigger.onUpdate
ReentryTrigger(p) ==
  /\ "ReentrySection.trigger" \in triggers
  /\ Ran("ReentrySection", "ReentrySection.trigger")
  /\ stateDirty' = stateDirty \cup {"ReentrySection"}
  /\ StoreCall("section4", p)
  /\ WroteKey("ReentrySection", "section4")
  /\ dom' = [dom EXCEPT !.reentryText = ReentryText(p)]
  /\ Wrote("ReentrySection", {"reentryText"})
  /\ UNCHANGED <<mounted, triggers, rafPending, moon, rocket, satellite, face,
                 cloud, staleReads, frames>>
  /\ UNCHANGED auxVars

\* trigger.onRefresh
ReentryRefresh(p) ==
  /\ "ReentrySection.trigger" \in triggers
  /\ Ran("ReentrySection", "ReentrySection.trigger")
  /\ stateDirty' = stateDirty \cup {"ReentrySection"}
  /\ StoreCall("section4", p)
  /\ WroteKey("ReentrySection", "section4")
  /\ UNCHANGED <<mounted, triggers, rafPending, driverVars, elemWriters,
                 staleReads, frames>>
  /\ UNCHANGED auxVars

\* cleanup: trigger.kill()
ReentryUnmount ==
  /\ "ReentrySection" \in mounted
  /\ mounted' = mounted \ {"ReentrySection"}
  /\ triggers' = triggers \ {"ReentrySection.trigger"}
  /\ stateDirty' = stateDirty \ {"ReentrySection"}
  /\ UNCHANGED <<storeVars, rafPending, driverVars, ghostVars>>
  /\ UNCHANGED auxVars

\* -------------------------------------------------------------- Rocket3D
\* scrollProgress is the React state set by setScrollProgress; screenPos is
\* what the frame callback last reported: nothing yet, visible: false at the
\* origin ("hidden"), or the booster's projected position ("booster");
\* lastStateUpdateRef is 0 until onUpdate first sets it
RocketInit == [scrollProgressRef |-> 0, section2ProgressRef |-> 0,
               scrollProgress |-> 0, screenPos |-> "none",
               lastStateUpdateRef |-> "0"]

\* mount: subscription, section2 ref effect, ScrollTrigger.create and the
\* immediate sync; the canvas starts calling the frame callback
RocketMount(p) ==
  /\ "Rocket3D" \notin mounted
  /\ mounted' = mounted \cup {"Rocket3D"}
  /\ triggers' = triggers \cup {"Rocket3D.trigger"}
  /\ rocket' = [RocketInit EXCEPT
                  !.scrollProgressRef = p,
                  !.section2ProgressRef = globalState.section2,
                  !.scrollProgress = p]
  /\ listeners' = SetAdd(listeners, "Rocket3D")
  /\ updateSection2Progress(p)
  /\ stateDirty' = stateDirty \cup {"Rocket3D"}
  /\ WroteKey("Rocket3D", "section2")
  /\ UNCHANGED <<handles, heldRef, readFresh, call, cancelled>>
  /\ UNCHANGED <<rafPending, moon, satellite, face, cloud, dom, elemWriters,
                 late, staleReads, frames>>
  /\ UNCHANGED auxVars

\* trigger.onUpdate; throttled: fewer than 16 ms since onUpdate last called
\* setScrollProgress, which it must have done before
RocketTrigger(p, throttled) ==
  /\ "Rocket3D.trigger" \in triggers
  /\ throttled => rocket.lastStateUpdateRef = "now"
  /\ Ran("Rocket3D", "Rocket3D.trigger")
  /\ rocket' = [rocket EXCEPT
                  !.scrollProgressRef = p,
                  !.scrollProgress = IF throttled THEN @ ELSE p,
                  !.lastStateUpdateRef = "now"]
  /\ StoreCall("section2", p)
  /\ WroteKey("Rocket3D", "section2")
  /\ stateDirty' = IF throttled THEN stateDirty
                   ELSE stateDirty \cup {"Rocket3D"}
  /\ UNCHANGED <<mounted, triggers, rafPending, moon, satellite, face, cloud,
                 dom, elemWriters, staleReads, frames>>
  /\ UNCHANGED auxVars

\* trigger.onRefresh
RocketRefresh(p) ==
  /\ "Rocket3D.trigger" \in triggers
  /\ Ran("Rocket3D", "Rocket3D.trigger")
  /\ rocket' = [rocket EXCEPT !.scrollProgressRef = p,
                               !.scrollProgress = p]
  /\ StoreCall("section2", p)
  /\ WroteKey("Rocket3D", "section2")
  /\ stateDirty' = stateDirty \cup {"Rocket3D"}
  /\ UNCHANGED <<mounted, triggers, rafPending, moon, satellite, face, cloud,
                 dom, elemWriters, staleReads, frames>>
  /\ UNCHANGED auxVars

\* faulty variant: the rocket is still shown at section-2 progress 1
RocketFrame_ShownAtEnd ==
  /\ "Rocket3D" \in mounted
  /\ Frame
  /\ LET isVisible == rocket.section2ProgressRef <= Scale
     IN  /\ dom' = [dom EXCEPT !.rocket = IF isVisible
                                            THEN rocket.scrollProgressRef
                                            ELSE -1]
         /\ rocket' = [rocket EXCEPT
                         !.screenPos = IF isVisible THEN "booster"
                                       ELSE "hidden"]
  /\ stateDirty' = stateDirty \cup {"Rocket3D"}
  /\ Wrote("Rocket3D", {"rocket"})
  /\ ReadMirror("Rocket3D", rocket.section2ProgressRef, globalState.section2)
  /\ UNCHANGED <<storeVars, mounted, triggers, rafPending, moon, satellite,
                 face, cloud, keyWriters, late>>
  /\ UNCHANGED auxVars

\* RocketModel's useFrame callback: the rocket is shown while the mirrored
\* section-2 progress is below 1 and placed from the trigger's own progress;
\* onScreenPositionUpdate is setScreenPos, with visible: false for a hidden
\* rocket and the booster's projected position otherwise
RocketFrame ==
  /\ "Rocket3D" \in mounted
  /\ Frame
  /\ LET isVisible == rocket.section2ProgressRef < Scale
     IN  /\ dom' = [dom EXCEPT !.rocket = IF isVisible
                                            THEN rocket.scrollProgressRef
                                            ELSE -1]
         /\ rocket' = [rocket EXCEPT
                         !.screenPos = IF isVisible THEN "booster"
                                       ELSE "hidden"]
  /\ stateDirty' = stateDirty \cup {"Rocket3D"}
  /\ Wrote("Rocket3D", {"rocket"})
  /\ ReadMirror("Rocket3D", rocket.section2ProgressRef, globalState.section2)
  /\ UNCHANGED <<storeVars, mounted, triggers, rafPending, moon, satellite,
                 face, cloud, keyWriters, late>>
  /\ UNCHANGED auxVars

\* cleanup: trigger.kill(); the canvas and its frame callback go with it
RocketUnmount ==
  /\ "Rocket3D" \in mounted
  /\ mounted' = mounted \ {"Rocket3D"}
  /\ triggers' = triggers \ {"Rocket3D.trigger"}
  /\ Unsubscribed("Rocket3D")
  /\ Forgotten("Rocket3D")
  /\ UNCHANGED <<globalState, globalRef, pending, rafPending, driverVars,
                 ghostVars>>
  /\ UNCHANGED auxVars

\* ----------------------------------------------------------- Satellite3D
SatelliteTextStart == 20
SatelliteTextEnd == 50
TextFadeOutStart == 10
TextFadeOutEnd == 40
SatelliteShown == 2

SatelliteInit == [scrollProgressRef |-> 0, section4ProgressRef |-> 0]

\* the text effect: eased section-3 fade-in times the section-4 fade-out
SatelliteText ==
  (EaseOutQuad(mapRange(globalState.section3, SatelliteTextStart,
                        SatelliteTextEnd, 0, Scale))
     * calculateFadeOut(globalState.section4, TextFadeOutStart,
                        TextFadeOutEnd)) \div Scale

\* mount: render (copies section4 into the ref), subscription, text effect,
\* ScrollTrigger.create and the immediate sync
SatelliteMount(p) ==
  /\ "Satellite3D" \notin mounted
  /\ mounted' = mounted \cup {"Satellite3D"}
  /\ triggers' = triggers \cup {"Satellite3D.trigger"}
  /\ satellite' = [scrollProgressRef |-> p,
                   section4ProgressRef |-> globalState.section4]
  /\ dom' = [dom EXCEPT !.satelliteText = SatelliteText]
  /\ Wrote("Satellite3D", {"satelliteText"})
  /\ listeners' = SetAdd(listeners, "Satellite3D")
  /\ updateSection3Progress(p)
  /\ stateDirty' = IF globalState.section3 # p
                     THEN stateDirty \cup {"Satellite3D"} ELSE stateDirty
  /\ WroteKey("Satellite3D", "section3")
  /\ UNCHANGED <<handles, heldRef, readFresh, call, cancelled>>
  /\ UNCHANGED <<rafPending, moon, rocket, face, cloud, late, staleReads,
                 frames>>
  /\ UNCHANGED auxVars

\* trigger.onUpdate and trigger.onRefresh (the same two statements)
SatelliteTrigger(p) ==
  /\ "Satellite3D.trigger" \in triggers
  /\ Ran("Satellite3D", "Satellite3D.trigger")
  /\ satellite' = [satellite EXCEPT !.scrollProgressRef = p]
  /\ StoreCall("section3", p)
  /\ WroteKey("Satellite3D", "section3")
  /\ UNCHANGED <<reactVars, moon, rocket, face, cloud, dom, elemWriters,
                 staleReads, frames>>
  /\ UNCHANGED auxVars

\* SatelliteModel's useFrame callback: the fade-out scales the satellite
\* down whatever its own progress; it is shown above 0.02 of its own
\* progress while the fade-out is above 0.01
SatelliteFrame ==
  /\ "Satellite3D" \in mounted
  /\ Frame
  /\ LET s4Progress == satellite.section4ProgressRef
         fadeOut == calculateFadeOut(s4Progress, FadeOutStart, FadeOutEnd)
         visible == satellite.scrollProgressRef > SatelliteShown
                      /\ fadeOut > 1
     IN  /\ dom' = [dom EXCEPT !.satellite = IF visible THEN fadeOut ELSE -1]
         /\ ReadMirror("Satellite3D", s4Progress, globalState.section4)
  /\ Wrote("Satellite3D", {"satellite"})
  /\ UNCHANGED <<storeVars, reactVars, moon, rocket, satellite, face, cloud,
                 keyWriters, late>>
  /\ UNCHANGED auxVars

\* cleanup: trigger.kill(); the canvas and its frame callback go with it
SatelliteUnmount ==
  /\ "Satellite3D" \in mounted
  /\ mounted' = mounted \ {"Satellite3D"}
  /\ triggers' = triggers \ {"Satellite3D.trigger"}
  /\ Unsubscribed("Satellite3D")
  /\ Forgotten("Satellite3D")
  /\ UNCHANGED <<globalState, globalRef, pending, rafPending, driverVars,
                 ghostVars>>
  /\ UNCHANGED auxVars

\* ---------------------------------------------------------------- MyFace
FACE_SMOOTH == 20

FaceInit == [section2ProgressRef |-> 0, section2SmoothedRef |-> 0,
             animationFrameRef |-> "null", gyroscope |-> "off"]

\* mount: the animation loop, the window listeners (on a touch device also
\* the deferred fallback reset and setupGyroscope) and the ScrollTrigger.
\* permissionApi: DeviceOrientationEvent.requestPermission exists, so the
\* deviceorientation listener is only added once the promise resolves.
FaceMount(isMobile, permissionApi) ==
  /\ "MyFace" \notin mounted
  /\ mounted' = mounted \cup {"MyFace"}
  /\ face' = [FaceInit EXCEPT
                !.animationFrameRef = "MyFace.animate",
                !.gyroscope = IF isMobile /\ permissionApi THEN "asking"
                              ELSE "off"]
  /\ rafPending' = rafPending \cup {"MyFace.animate"}
                     \cup (IF isMobile THEN {"MyFace.fallback"} ELSE {})
  /\ triggers' = triggers \cup {"MyFace.trigger"}
                   \cup (IF isMobile /\ ~permissionApi
                           THEN {"MyFace.deviceorientation"} ELSE {})
  /\ UNCHANGED <<storeVars, stateDirty, moon, rocket, satellite, cloud, dom,
                 ghostVars>>
  /\ UNCHANGED auxVars

\* trigger.onUpdate
FaceTrigger(p) ==
  /\ "MyFace.trigger" \in triggers
  /\ Ran("MyFace", "MyFace.trigger")
  /\ face' = [face EXCEPT !.section2ProgressRef = p]
  /\ UNCHANGED <<storeVars, reactVars, moon, rocket, satellite, cloud, dom,
                 keyWriters, elemWriters, staleReads, frames>>
  /\ UNCHANGED auxVars

\* faulty variant: the face's loop fades the moon along with the wrapper
FaceAnimate_AlsoMoon ==
  /\ "MyFace.animate" \in rafPending
  /\ Frame
  /\ Ran("MyFace", "MyFace.animate")
  /\ LET s2p == SmoothStep(face.section2SmoothedRef, face.section2ProgressRef,
                           FACE_SMOOTH)
     IN  /\ face' = [face EXCEPT !.section2SmoothedRef = s2p]
         /\ IF "MyFace" \in mounted
              THEN /\ dom' = [dom EXCEPT !.faceWrapper = Max(0, Scale - s2p * 2),
                                          !.moon = Max(0, Scale - s2p * 2)]
                   /\ Wrote("MyFace", {"faceWrapper", "moon"})
              ELSE UNCHANGED <<dom, elemWriters>>
  /\ UNCHANGED <<storeVars, reactVars, moon, rocket, satellite, cloud,
                 keyWriters, staleReads>>
  /\ UNCHANGED auxVars

\* the animation loop: smooths the section-2 progress, moves and fades the
\* wrapper (when it is still in the document)
FaceAnimate ==
  /\ "MyFace.animate" \in rafPending
  /\ Frame
  /\ Ran("MyFace", "MyFace.animate")
  /\ LET s2p == SmoothStep(face.section2SmoothedRef, face.section2ProgressRef,
                           FACE_SMOOTH)
     IN  /\ face' = [face EXCEPT !.section2SmoothedRef = s2p]
         /\ IF "MyFace" \in mounted
              THEN /\ dom' = [dom EXCEPT !.faceWrapper = Max(0, Scale - s2p * 2)]
                   /\ Wrote("MyFace", {"faceWrapper"})
              ELSE UNCHANGED <<dom, elemWriters>>
  /\ UNCHANGED <<storeVars, reactVars, moon, rocket, satellite, cloud,
                 keyWriters, staleReads>>
  /\ UNCHANGED auxVars

\* requestAnimationFrame(() => setFallbackPosition()): resets the tracking
\* refs and asks for a re-render
FaceFallbackFrame ==
  /\ "MyFace.fallback" \in rafPending
  /\ rafPending' = rafPending \ {"MyFace.fallback"}
  /\ Ran("MyFace", "MyFace.fallback")
  /\ stateDirty' = IF "MyFace" \in mounted THEN stateDirty \cup {"MyFace"}
                   ELSE stateDirty
  /\ UNCHANGED <<storeVars, mounted, triggers, driverVars, keyWriters,
                 elemWriters, staleReads, frames>>
  /\ UNCHANGED auxVars

\* await requestPermission() resolves: on "granted" the listener is added,
\* whether or not the component is still mounted
GyroscopePermission(granted) ==
  /\ face.gyroscope = "asking"
  /\ face' = [face EXCEPT !.gyroscope = "off"]
  /\ triggers' = IF granted THEN triggers \cup {"MyFace.deviceorientation"}
                 ELSE triggers
  /\ UNCHANGED <<storeVars, stateDirty, mounted, rafPending, moon, rocket,
                 satellite, cloud, dom, ghostVars>>
  /\ UNCHANGED auxVars

\* handleDeviceOrientation: returns at once when the container is gone
DeviceOrientation ==
  /\ "MyFace.deviceorientation" \in triggers
  /\ Ran("MyFace", "MyFace.deviceorientation")
  /\ UNCHANGED <<storeVars, reactVars, driverVars, keyWriters, elemWriters,
                 staleReads, frames>>
  /\ UNCHANGED auxVars

\* cleanup: if (animationFrameRef.current) cancelAnimationFrame(...)
FaceCancelFrame ==
  IF face.animationFrameRef # "null"
    THEN rafPending \ {face.animationFrameRef} ELSE rafPending

\* cleanups: cancel the loop, remove the window listeners, kill the trigger
FaceUnmount ==
  /\ "MyFace" \in mounted
  /\ mounted' = mounted \ {"MyFace"}
  /\ rafPending' = FaceCancelFrame
  /\ triggers' = triggers \ {"MyFace.trigger", "MyFace.deviceorientation"}
  /\ stateDirty' = stateDirty \ {"MyFace"}
  /\ UNCHANGED <<storeVars, driverVars, ghostVars>>
  /\ UNCHANGED auxVars

\* ------------------------------------------------------- CloudAtmosphere
CLOUD_FADE_IN == 50
CLOUD_OPACITY == 60
SLIDE_DURATION == 20
CLOUD_SMOOTH == 8
CLOUD_RENDER_FROM == 45

CloudInit == [mounted |-> FALSE, section4ProgressRef |-> 0, opacity |-> 0,
              rendered |-> FALSE, animationId |-> "null"]

\* targetOpacity of the first cloud layer
CloudTarget(progress) ==
  IF progress >= CLOUD_FADE_IN
    THEN LET fadeInProgress ==
               Min(Scale, ((progress - CLOUD_FADE_IN) * 120) \div SLIDE_DURATION)
         IN  (CLOUD_OPACITY * fadeInProgress) \div Scale
    ELSE 0

\* mount: first render returns null; the effects subscribe, setMounted(true)
\* and skip the animation loop (mounted is still false)
CloudMount ==
  /\ "CloudAtmosphere" \notin mounted
  /\ mounted' = mounted \cup {"CloudAtmosphere"}
  /\ cloud' = [CloudInit EXCEPT !.section4ProgressRef = globalState.section4]
  /\ stateDirty' = stateDirty \cup {"CloudAtmosphere"}
  /\ Subscribed("CloudAtmosphere")
  /\ UNCHANGED <<globalState, globalRef, pending, needsRender, triggers,
                 rafPending, moon, rocket, satellite, face, dom, ghostVars>>
  /\ UNCHANGED auxVars

\* faulty variant: the loop writes to a layer whether or not it exists
CloudAnimate_NoGuard ==
  /\ "CloudAtmosphere.animate" \in rafPending
  /\ Frame
  /\ Ran("CloudAtmosphere", "CloudAtmosphere.animate")
  /\ LET newOpacity == SmoothStep(cloud.opacity,
                         CloudTarget(cloud.section4ProgressRef), CLOUD_SMOOTH)
     IN  /\ cloud' = [cloud EXCEPT !.opacity = newOpacity]
         /\ dom' = [dom EXCEPT !.cloud = newOpacity]
         /\ Wrote("CloudAtmosphere", {"cloud"})
  /\ UNCHANGED <<storeVars, reactVars, moon, rocket, satellite, face,
                 keyWriters, staleReads>>
  /\ UNCHANGED auxVars

\* the animation loop: each existing layer's opacity moves toward its target
CloudAnimate ==
  /\ "CloudAtmosphere.animate" \in rafPending
  /\ Frame
  /\ Ran("CloudAtmosphere", "CloudAtmosphere.animate")
  /\ IF cloud.rendered
       THEN LET newOpacity == SmoothStep(cloud.opacity,
                                CloudTarget(cloud.section4ProgressRef),
                                CLOUD_SMOOTH)
            IN  /\ cloud' = [cloud EXCEPT !.opacity = newOpacity]
                /\ dom' = [dom EXCEPT !.cloud = newOpacity]
                /\ Wrote("CloudAtmosphere", {"cloud"})
       ELSE UNCHANGED <<cloud, dom, elemWriters>>
  /\ UNCHANGED <<storeVars, reactVars, moon, rocket, satellite, face,
                 keyWriters, staleReads>>
  /\ UNCHANGED auxVars

\* cleanup of the loop effect: cancelAnimationFrame(animationId)
CloudCancelFrame == rafPending \ {cloud.animationId}

CloudUnmount ==
  /\ "CloudAtmosphere" \in mounted
  /\ mounted' = mounted \ {"CloudAtmosphere"}
  /\ rafPending' = CloudCancelFrame
  /\ cloud' = [cloud EXCEPT !.rendered = FALSE]
  /\ Unsubscribed("CloudAtmosphere")
  /\ Forgotten("CloudAtmosphere")
  /\ UNCHANGED <<globalState, globalRef, pending, triggers, moon, rocket,
                 satellite, face, dom, ghostVars>>
  /\ UNCHANGED auxVars

\* ----------------------------------------------------------------- React
\* the components React has to re-render
Dirty == (needsRender \cup stateDirty) \cap mounted

\* MoonReveal re-rendered: the effect copies the rendered section4
MoonRendered == [moon EXCEPT !.section4ProgressRef = globalState.section4]

\* Rocket3D re-rendered: the effect copies the rendered section2
RocketRendered ==
  [rocket EXCEPT !.section2ProgressRef = globalState.section2]

\* Satellite3D re-rendered: the render itself copies section4 into the ref
SatelliteRendered ==
  [satellite EXCEPT !.section4ProgressRef = globalState.section4]

\* CloudAtmosphere re-rendered: setMounted(true) has taken effect, the ref
\* is synced, the layers exist from 0.45 of section 4 on, and the loop
\* effect starts the loop when mounted turned true
CloudRendered ==
  [cloud EXCEPT !.mounted = TRUE,
                !.section4ProgressRef = globalState.section4,
                !.rendered = globalState.section4 >= CLOUD_RENDER_FROM,
                !.animationId = "CloudAtmosphere.animate"]

\* React renders every component with a pending update and runs its effects
ReactCommit ==
  /\ Dirty # {}
  /\ needsRender' = needsRender \ Dirty
  /\ stateDirty' = stateDirty \ Dirty
  /\ moon' = IF "MoonReveal" \in Dirty THEN MoonRendered ELSE moon
  /\ rocket' = IF "Rocket3D" \in Dirty THEN RocketRendered ELSE rocket
  /\ satellite' = IF "Satellite3D" \in Dirty THEN SatelliteRendered
                  ELSE satellite
  /\ cloud' = IF "CloudAtmosphere" \in Dirty THEN CloudRendered ELSE cloud
  /\ rafPending' = IF "CloudAtmosphere" \in Dirty /\ ~cloud.mounted
                     THEN rafPending \cup {"CloudAtmosphere.animate"}
                     ELSE rafPending
  /\ IF "Satellite3D" \in Dirty
       THEN /\ dom' = [dom EXCEPT !.satelliteText = SatelliteText]
            /\ Wrote("Satellite3D", {"satelliteText"})
       ELSE UNCHANGED <<dom, elemWriters>>
  /\ UNCHANGED <<globalState, globalRef, listeners, pending, handles, heldRef,
                 readFresh, call, cancelled>>
  /\ UNCHANGED <<mounted, triggers, face, keyWriters, late, staleReads,
                 frames>>
  /\ UNCHANGED auxVars

\* ----------------------------------------------------------------- specs
DriversStart ==
  /\ stateDirty = {}
  /\ mounted = {}
  /\ triggers = {}
  /\ rafPending = {}
  /\ moon = MoonInit
  /\ rocket = RocketInit
  /\ satellite = SatelliteInit
  /\ face = FaceInit
  /\ cloud = CloudInit
  /\ dom = [e \in Elements |-> IF e \in {"mask", "moon", "faceWrapper"}
                                 THEN Scale ELSE 0]
  /\ keyWriters = [k \in Keys |-> {}]
  /\ elemWriters = [e \in Elements |-> {}]
  /\ late = {}
  /\ staleReads = {}

DriversInit == DriversStart /\ frames = 0

\* ----------------------------------------------------- CloudscapeSection
\* scroll positions as (section-5 progress, section-6 progress): the
\* cityscape section starts where the cloudscape section ends
ScrollPositions == {<<0, 0>>, <<45, 0>>, <<60, 0>>, <<Scale, 0>>,
                    <<Scale, 10>>, <<Scale, 25>>, <<Scale, Scale>>}

\* at rest after mount at the top of the page: position is the scroll
\* position, due the triggers that have still to handle it, scrollProgressRef
\* and section6 what the triggers last reported, rendered6 the section6 of
\* the last render, opacity the text's style
CloudscapeInit == [position |-> <<0, 0>>, due |-> {}, scrollProgressRef |-> 0,
                   section6 |-> 0, rendered6 |-> 0,
                   section6ProgressRef |-> 0, opacity |-> 0]

CloudscapeOthers == <<calc, smooth, form, typewriter, loading, trail>>

\* the store's update function for section 6: store the value if it differs
updateSection6Progress(progress) ==
  cloudscape' = [cloudscape EXCEPT !.section6 = progress,
                                   !.due = @ \ {"cityscape"}]

\* 1 - mapRange(section6, 0.1, 0.4)
Section6FadeOut(section6) == Scale - mapRange(section6, 10, 40, 0, Scale)

\* the text's fade-in over [0.3, 0.6] of section 5, eased
CloudscapeFadeIn(progress) ==
  EaseOutQuad(Max(0, Min(Scale, ((progress - 30) * Scale) \div 30)))

\* the page is scrolled: every trigger whose progress changed has to update
CloudscapeScroll(y) ==
  /\ cloudscape.due = {}
  /\ cloudscape.rendered6 = cloudscape.section6
  /\ y # cloudscape.position
  /\ cloudscape' = [cloudscape EXCEPT
                      !.position = y,
                      !.due = {t \in {"cloudscape", "cityscape"} :
                                 IF t = "cloudscape"
                                   THEN y[1] # cloudscape.scrollProgressRef
                                   ELSE y[2] # cloudscape.section6}]
  /\ UNCHANGED <<storeVars, reactVars, driverVars, ghostVars>>
  /\ UNCHANGED CloudscapeOthers

\* CloudscapeSection's trigger.onUpdate
CloudscapeTrigger ==
  /\ "cloudscape" \in cloudscape.due
  /\ LET progress == cloudscape.position[1]
         finalOpacity ==
           (CloudscapeFadeIn(progress)
              * Section6FadeOut(cloudscape.section6ProgressRef)) \div Scale
     IN  cloudscape' = [cloudscape EXCEPT !.due = @ \ {"cloudscape"},
                                          !.scrollProgressRef = progress,
                                          !.opacity = finalOpacity]
  /\ UNCHANGED <<storeVars, reactVars, driverVars, ghostVars>>
  /\ UNCHANGED CloudscapeOthers

\* CityscapeSection's trigger.onUpdate, as far as the store is concerned
CityscapeTrigger ==
  /\ "cityscape" \in cloudscape.due
  /\ updateSection6Progress(cloudscape.position[2])
  /\ UNCHANGED <<storeVars, reactVars, driverVars, ghostVars>>
  /\ UNCHANGED CloudscapeOthers

\* CloudscapeSection re-rendered with a changed section6: the effect syncs
\* the ref and, for section6 > 0, writes the fade-out to the text
CloudscapeCommit ==
  /\ cloudscape.due = {}
  /\ cloudscape.rendered6 # cloudscape.section6
  /\ cloudscape' = [cloudscape EXCEPT
                      !.rendered6 = cloudscape.section6,
                      !.section6ProgressRef = cloudscape.section6,
                      !.opacity = IF cloudscape.section6 > 0
                                    THEN Section6FadeOut(cloudscape.section6)
                                    ELSE @]
  /\ UNCHANGED <<storeVars, reactVars, driverVars, ghostVars>>
  /\ UNCHANGED CloudscapeOthers

\* -------------------------------------------------------- TypewriterText
\* words are sequences of characters; the word lists a caller may pass
WordLists == {<< >>,
              << <<"a", "b">> >>,
              << <<"a", "b">>, <<"c">> >>,
              << <<"a", "b">>, << >>, <<"c", "d", "e">> >>}

Phases == {"typing", "pausing", "deleting", "selecting_next"}

\* shuffleArray: some reordering of the array
shuffleArray(array) ==
  {[i \in DOMAIN array |-> array[f[i]]] :
     f \in {g \in [DOMAIN array -> DOMAIN array] :
              \A i, j \in DOMAIN array : i # j => g[i] # g[j]}}

\* the component's state on its first render
TypewriterStart(words) ==
  [words |-> words, wordQueue |-> << >>, currentWordIndex |-> 0,
   displayText |-> << >>, phase |-> "typing", queued |-> FALSE]

TypewriterInit == TypewriterStart(<< >>)

TypewriterOthers == <<calc, smooth, form, cloudscape, loading, trail>>

\* wordQueue[currentWordIndex] || ""
getCurrentWord ==
  IF typewriter.currentWordIndex < Len(typewriter.wordQueue)
    THEN typewriter.wordQueue[typewriter.currentWordIndex + 1]
    ELSE << >>

\* the mount effect: setWordQueue(shuffleArray(words))
TypewriterMount ==
  /\ ~typewriter.queued
  /\ \E q \in shuffleArray(typewriter.words) :
       typewriter' = [typewriter EXCEPT !.wordQueue = q, !.queued = TRUE]
  /\ UNCHANGED <<storeVars, reactVars, driverVars, ghostVars>>
  /\ UNCHANGED TypewriterOthers

\* typing, the word not yet complete: the timeout adds one character
TypeCharacter ==
  /\ Len(typewriter.wordQueue) # 0
  /\ typewriter.phase = "typing"
  /\ Len(typewriter.displayText) < Len(getCurrentWord)
  /\ typewriter' = [typewriter EXCEPT
                      !.displayText =
                        SubSeq(getCurrentWord, 1,
                               Len(typewriter.displayText) + 1)]
  /\ UNCHANGED <<storeVars, reactVars, driverVars, ghostVars>>
  /\ UNCHANGED TypewriterOthers

\* faulty variant: typing stops one character short
TypingDone_Early ==
  /\ Len(typewriter.wordQueue) # 0
  /\ typewriter.phase = "typing"
  /\ Len(typewriter.displayText) + 1 >= Len(getCurrentWord)
  /\ typewriter' = [typewriter EXCEPT !.phase = "pausing"]
  /\ UNCHANGED <<storeVars, reactVars, driverVars, ghostVars>>
  /\ UNCHANGED TypewriterOthers

\* typing, the word complete: the effect itself sets pausing
TypingDone ==
  /\ Len(typewriter.wordQueue) # 0
  /\ typewriter.phase = "typing"
  /\ ~(Len(typewriter.displayText) < Len(getCurrentWord))
  /\ typewriter' = [typewriter EXCEPT !.phase = "pausing"]
  /\ UNCHANGED <<storeVars, reactVars, driverVars, ghostVars>>
  /\ UNCHANGED TypewriterOthers

\* pausing: the timeout sets deleting
PauseOver ==
  /\ Len(typewriter.wordQueue) # 0
  /\ typewriter.phase = "pausing"
  /\ typewriter' = [typewriter EXCEPT !.phase = "deleting"]
  /\ UNCHANGED <<storeVars, reactVars, driverVars, ghostVars>>
  /\ UNCHANGED TypewriterOthers

\* deleting, text left: the timeout removes the last character
DeleteCharacter ==
  /\ Len(typewriter.wordQueue) # 0
  /\ typewriter.phase = "deleting"
  /\ Len(typewriter.displayText) > 0
  /\ typewriter' = [typewriter EXCEPT
                      !.displayText =
                        SubSeq(typewriter.displayText, 1,
                               Len(typewriter.displayText) - 1)]
  /\ UNCHANGED <<storeVars, reactVars, driverVars, ghostVars>>
  /\ UNCHANGED TypewriterOthers

\* deleting, no text left: the effect itself sets selecting_next
DeletingDone ==
  /\ Len(typewriter.wordQueue) # 0
  /\ typewriter.phase = "deleting"
  /\ ~(Len(typewriter.displayText) > 0)
  /\ typewriter' = [typewriter EXCEPT !.phase = "selecting_next"]
  /\ UNCHANGED <<storeVars, reactVars, driverVars, ghostVars>>
  /\ UNCHANGED TypewriterOthers

\* selecting_next: the timeout moves to the next word, or reshuffles after
\* the last one, and sets typing
SelectNext ==
  /\ Len(typewriter.wordQueue) # 0
  /\ typewriter.phase = "selecting_next"
  /\ LET nextIndex == typewriter.currentWordIndex + 1
     IN  IF nextIndex >= Len(typewriter.wordQueue)
           THEN \E q \in shuffleArray(typewriter.words) :
                  typewriter' = [typewriter EXCEPT !.wordQueue = q,
                                                   !.currentWordIndex = 0,
                                                   !.phase = "typing"]
           ELSE typewriter' = [typewriter EXCEPT
                                 !.currentWordIndex = nextIndex,
                                 !.phase = "typing"]
  /\ UNCHANGED <<storeVars, reactVars, driverVars, ghostVars>>
  /\ UNCHANGED TypewriterOthers

\* --------------------------------------------------------- LoadingScreen
\* globalState of LoadingScreen.tsx (isLoaded, progress, assetsReady,
\* minTimeElapsed) and the one mounted LoadingScreen: the snapshot its last
\* render saw, its three timers and the overflow style it writes on body and
\* documentElement.  progress is in percent.
Rendered(s) == [assetsReady |-> s.assetsReady,
                minTimeElapsed |-> s.minTimeElapsed,
                isLoaded |-> s.isLoaded]

LoadingInit == [isLoaded |-> FALSE, progress |-> 0, assetsReady |-> FALSE,
                minTimeElapsed |-> FALSE, mounted |-> FALSE,
                rendered |-> [assetsReady |-> FALSE, minTimeElapsed |-> FALSE,
                              isLoaded |-> FALSE],
                progressInterval |-> FALSE, timer |-> FALSE,
                completeTimer |-> FALSE, overflow |-> ""]

LoadingOthers == <<calc, smooth, form, cloudscape, typewriter, trail>>

\* Math.random() * 12, rounded to the values the model draws from
ProgressSteps == {0, 6, 11}

CompletionDue_AssetsOnly(s) ==
  (s.assetsReady \/ s.minTimeElapsed) /\ ~s.isLoaded

\* the condition of the completion effect, on the state the render saw
CompletionDue(s) ==
  (s.assetsReady \/ s.minTimeElapsed) /\ s.minTimeElapsed /\ ~s.isLoaded

\* the scroll-lock effect's body
ScrollLock(s) == IF ~s.isLoaded THEN "hidden" ELSE ""

\* first render and the three effects of the mount
LoadingMount ==
  /\ ~loading.mounted
  /\ loading' = [loading EXCEPT
                   !.mounted = TRUE,
                   !.rendered = Rendered(loading),
                   !.progressInterval = TRUE,
                   !.timer = TRUE,
                   !.completeTimer = CompletionDue(Rendered(loading)),
                   !.overflow = ScrollLock(Rendered(loading))]
  /\ UNCHANGED <<storeVars, reactVars, driverVars, ghostVars>>
  /\ UNCHANGED LoadingOthers

\* signalReady(), called by the rocket scene once its model has loaded
signalReady ==
  /\ loading' = [loading EXCEPT !.assetsReady = TRUE, !.progress = 100]
  /\ UNCHANGED <<storeVars, reactVars, driverVars, ghostVars>>
  /\ UNCHANGED LoadingOthers

\* one tick of the 150 ms progress interval
ProgressTick ==
  /\ loading.progressInterval
  /\ \E step \in ProgressSteps :
       loading' = [loading EXCEPT
                     !.progress = IF @ < 90 THEN @ + step ELSE @]
  /\ UNCHANGED <<storeVars, reactVars, driverVars, ghostVars>>
  /\ UNCHANGED LoadingOthers

\* the 1400 ms minimum-time timer fires
MinTimeTimer ==
  /\ loading.timer
  /\ loading' = [loading EXCEPT !.minTimeElapsed = TRUE,
                                !.progress = 100,
                                !.timer = FALSE,
                                !.progressInterval = FALSE]
  /\ UNCHANGED <<storeVars, reactVars, driverVars, ghostVars>>
  /\ UNCHANGED LoadingOthers

\* a render with a changed snapshot: the completion effect re-runs when one
\* of its three dependencies changed (cleanup clears its timer first), the
\* scroll-lock effect when isLoaded changed
LoadingCommit ==
  /\ loading.mounted
  /\ loading.rendered # Rendered(loading)
  /\ LET now == Rendered(loading)
     IN  loading' = [loading EXCEPT
                       !.rendered = now,
                       !.completeTimer = CompletionDue(now),
                       !.overflow = IF now.isLoaded # loading.rendered.isLoaded
                                      THEN ScrollLock(now) ELSE @]
  /\ UNCHANGED <<storeVars, reactVars, driverVars, ghostVars>>
  /\ UNCHANGED LoadingOthers

\* the 300 ms completion timer fires
CompleteTimer ==
  /\ loading.completeTimer
  /\ loading' = [loading EXCEPT !.isLoaded = TRUE, !.completeTimer = FALSE]
  /\ UNCHANGED <<storeVars, reactVars, driverVars, ghostVars>>
  /\ UNCHANGED LoadingOthers

\* the cleanups of the three effects
LoadingUnmount ==
  /\ loading.mounted
  /\ loading' = [loading EXCEPT !.mounted = FALSE,
                                !.timer = FALSE,
                                !.progressInterval = FALSE,
                                !.completeTimer = FALSE,
                                !.overflow = ""]
  /\ UNCHANGED <<storeVars, reactVars, driverVars, ghostVars>>
  /\ UNCHANGED LoadingOthers

\* ------------------------------------------------------------ the trail
\* The trail effect of Rocket3D: the trails state and the effect's locals.
\* Opacities and progress are in thousandths; times are in milliseconds.
\* A trail point keeps its opacity and, in before, the opacity it had when
\* the tick that produced it began (its starting opacity for a new point);
\* id, x, y and size do not enter the opacity or the length of the list.
\* sinceTrail is now - lastTrailTime and sinceChange is now - lastChangeTime
\* at the last tick, each kept up to the first value above its threshold.
\* scrolling and gesture describe the user: while scrolling the progress
\* alternates between the two values of the gesture from tick to tick.
TrailInterval == 25
TrailGap == 40
IdleAfter == 500
TrailKeep == 25
FadeRateIdle == 80
FadeRateActive == 15

TrailGestures == {<<40, 50>>, <<990, 1000>>}

TrailInit == [trails |-> << >>, isScrollIdle |-> FALSE,
              sinceTrail |-> TrailGap + 1, sinceChange |-> 0,
              lastProgress |-> 0, progress |-> 0, visible |-> FALSE,
              scrolling |-> FALSE, gesture |-> <<0, 0>>, added |-> FALSE]

TrailOthers == <<calc, smooth, form, cloudscape, typewriter, loading>>

Abs(x) == IF x < 0 THEN -x ELSE x

SliceLast_All(s, n) == s

\* prev.slice(-25)
SliceLast(s, n) ==
  IF Len(s) <= n THEN s ELSE SubSeq(s, Len(s) - n + 1, Len(s))

\* opacity: 0.5 + progress * 0.3
TrailOpacity(progress) == 500 + (progress * 3) \div 10

IsAlive(t) == t.opacity > 0

\* newTrails.map(fade).filter(opacity > 0)
FadeTrails(s, fadeRate) ==
  SelectSeq([i \in 1..Len(s) |-> [opacity |-> s[i].opacity - fadeRate,
                                   before |-> s[i].opacity]],
            IsAlive)

\* the values scrollProgressValRef can hold at the next tick
ProgressNow ==
  IF trail.scrolling
    THEN {IF trail.progress = trail.gesture[1] THEN trail.gesture[2]
                                               ELSE trail.gesture[1]}
    ELSE {trail.progress}

\* the user starts to scroll, with the booster on or off the screen
TrailStartScroll(g, v) ==
  /\ ~trail.scrolling
  /\ trail.isScrollIdle
  /\ trail' = [trail EXCEPT !.scrolling = TRUE, !.gesture = g, !.visible = v]
  /\ UNCHANGED <<storeVars, reactVars, driverVars, ghostVars>>
  /\ UNCHANGED TrailOthers

\* the user stops scrolling
TrailStopScroll ==
  /\ trail.scrolling
  /\ trail' = [trail EXCEPT !.scrolling = FALSE]
  /\ UNCHANGED <<storeVars, reactVars, driverVars, ghostVars>>
  /\ UNCHANGED TrailOthers

\* one tick of the 25 ms interval, with the updater it hands to setTrails
runInterval(progress) ==
  LET changed == Abs(progress - trail.lastProgress) > 1
      sinceChange == Min(trail.sinceChange + TrailInterval, IdleAfter + 1)
      isScrollIdle ==
        IF changed THEN FALSE
        ELSE IF ~trail.isScrollIdle /\ sinceChange > IdleAfter THEN TRUE
        ELSE trail.isScrollIdle
      sinceTrail == Min(trail.sinceTrail + TrailInterval, TrailGap + 1)
      skip == isScrollIdle /\ Len(trail.trails) = 0
      add == /\ ~skip
             /\ ~isScrollIdle
             /\ progress > 50
             /\ trail.visible
             /\ sinceTrail > TrailGap
      newTrails ==
        IF add
          THEN Append(SliceLast(trail.trails, TrailKeep),
                      [opacity |-> TrailOpacity(progress),
                       before |-> TrailOpacity(progress)])
          ELSE trail.trails
      fadeRate == IF isScrollIdle THEN FadeRateIdle ELSE FadeRateActive
  IN  /\ trail' = [trail EXCEPT
                     !.progress = progress,
                     !.lastProgress = IF changed THEN progress ELSE @,
                     !.sinceChange = IF changed THEN 0 ELSE sinceChange,
                     !.isScrollIdle = isScrollIdle,
                     !.sinceTrail = IF add THEN 0 ELSE sinceTrail,
                     !.added = add,
                     !.trails = IF skip THEN @
                                ELSE FadeTrails(newTrails, fadeRate)]
      /\ UNCHANGED <<storeVars, reactVars, driverVars, ghostVars>>
      /\ UNCHANGED TrailOthers

TrailTick == \E progress \in ProgressNow : runInterval(progress)

\* ------------------------------------------------------- helper calls
CalcValues == {-10, 0, 10, 25, 50, 60, 100, 110}
CalcWindows == {0, 10, 25, 40, 50}
CalcOutputs == {0, 50, 100}

NoCalc == [fn |-> "none", value |-> 0, other |-> 0, inMin |-> 0, inMax |-> 0,
           outMin |-> 0, outMax |-> 0, out |-> 0, out2 |-> 0]

\* the arguments a caller may pass
CalcArgs ==
  {[NoCalc EXCEPT !.value = v, !.other = w, !.inMin = a, !.inMax = b,
                  !.outMin = c, !.outMax = d] :
     v \in CalcValues, w \in CalcValues, a \in CalcWindows, b \in CalcWindows,
     c \in CalcOutputs, d \in CalcOutputs}

\* mapRange(value, ...) and mapRange(other, ...) with the same ranges
CallMapRange ==
  /\ calc.fn = "none"
  /\ calc' = [calc EXCEPT
                !.fn = "mapRange",
                !.out = mapRange(calc.value, calc.inMin, calc.inMax,
                                 calc.outMin, calc.outMax),
                !.out2 = mapRange(calc.other, calc.inMin, calc.inMax,
                                  calc.outMin, calc.outMax)]
  /\ UNCHANGED <<storeVars, reactVars, driverVars, ghostVars, smooth, form,
                 sectionVars>>

\* calculateFadeIn(value, inMin, inMax) and calculateFadeOut(value, inMin,
\* inMax)
CallFade ==
  /\ calc.fn = "none"
  /\ calc' = [calc EXCEPT
                !.fn = "fade",
                !.out = calculateFadeIn(calc.value, calc.inMin, calc.inMax),
                !.out2 = calculateFadeOut(calc.value, calc.inMin, calc.inMax)]
  /\ UNCHANGED <<storeVars, reactVars, driverVars, ghostVars, smooth, form,
                 sectionVars>>

\* MoonReveal's own mapRange(value, inMin, inMax)
CallMoonMapRange ==
  /\ calc.fn = "none"
  /\ calc' = [calc EXCEPT
                !.fn = "MoonReveal.mapRange",
                !.out = MoonMapRange(calc.value, calc.inMin, calc.inMax)]
  /\ UNCHANGED <<storeVars, reactVars, driverVars, ghostVars, smooth, form,
                 sectionVars>>

\* ------------------------------------------------------- smoothed state
\* the blend factors of MoonReveal, MyFace and CloudAtmosphere
SmoothFactors == {SMOOTH_FACTOR, FACE_SMOOTH, CLOUD_SMOOTH}
SmoothValues == {0, 30, 60, Scale}

NoSmooth == [current |-> 0, target |-> 0, pct |-> 0]

\* one frame of a driver's loop: the current value moves toward the target
SmoothFrame ==
  /\ smooth.pct # 0
  /\ smooth' = [smooth EXCEPT
                  !.current = SmoothStep(smooth.current, smooth.target,
                                         smooth.pct)]
  /\ UNCHANGED <<storeVars, reactVars, driverVars, ghostVars, calc, form,
                 sectionVars>>

\* ------------------------------------------------------- contact form
MaxSubmits == 2

FormFields == {"name", "email", "message"}
FieldValues == {"", "a", "b"}
FormStatus == {"idle", "loading", "success", "error"}
Outcomes == {"ok", "notOk", "throws"}

EmptyForm == [f \in FormFields |-> ""]

\* useState("idle"), useState({name: "", email: "", message: ""}); requests
\* counts the calls of fetch, response is how the last one ended
FormInit == [status |-> "idle", data |-> EmptyForm, requests |-> 0,
             response |-> "none"]

\* onChange of an input; the inputs are disabled while loading
handleInputChange(name, value) ==
  /\ form.status # "loading"
  /\ form' = [form EXCEPT
                !.data = [form.data EXCEPT ![name] = value],
                !.status = IF form.status \in {"success", "error"}
                             THEN "idle" ELSE form.status]
  /\ UNCHANGED <<storeVars, reactVars, driverVars, ghostVars, calc, smooth,
                 sectionVars>>

\* onSubmit up to the await: the browser submits only a form whose required
\* fields are filled, and the submit button is disabled while loading
handleSubmit ==
  /\ form.status # "loading"
  /\ \A f \in FormFields : form.data[f] # ""
  /\ form.requests < MaxSubmits
  /\ form' = [form EXCEPT !.status = "loading",
                          !.requests = form.requests + 1]
  /\ UNCHANGED <<storeVars, reactVars, driverVars, ghostVars, calc, smooth,
                 sectionVars>>

\* faulty variant: the fields are cleared however the request ends
FormResponse_AlwaysClears(outcome) ==
  /\ form.status = "loading"
  /\ form' = [form EXCEPT
                !.status = IF outcome = "ok" THEN "success" ELSE "error",
                !.data = EmptyForm,
                !.response = outcome]
  /\ UNCHANGED <<storeVars, reactVars, driverVars, ghostVars, calc, smooth,
                 sectionVars>>

\* handleSubmit after the await: the response is ok, is not ok, or fetch
\* threw
FormResponse(outcome) ==
  /\ form.status = "loading"
  /\ form' = [form EXCEPT
                !.status = IF outcome = "ok" THEN "success" ELSE "error",
                !.data = IF outcome = "ok" THEN EmptyForm ELSE form.data,
                !.response = outcome]
  /\ UNCHANGED <<storeVars, reactVars, driverVars, ghostVars, calc, smooth,
                 sectionVars>>

SectionsInit ==
  /\ cloudscape = CloudscapeInit
  /\ typewriter = TypewriterInit
  /\ loading = LoadingInit
  /\ trail = TrailInit

AuxInit ==
  /\ calc = NoCalc
  /\ smooth = NoSmooth
  /\ form = FormInit
  /\ SectionsInit

Init == StoreInit /\ DriversInit /\ AuxInit

CalcInit ==
  /\ StoreInit
  /\ DriversInit
  /\ calc \in CalcArgs
  /\ smooth = NoSmooth
  /\ form = FormInit
  /\ SectionsInit

NextCalc ==
  \/ CallMapRange
  \/ CallFade
  \/ CallMoonMapRange

SpecCalc == CalcInit /\ [][NextCalc]_vars

SmoothInit ==
  /\ StoreInit
  /\ DriversInit
  /\ calc = NoCalc
  /\ smooth \in [current : SmoothValues, target : SmoothValues,
                 pct : SmoothFactors]
  /\ form = FormInit
  /\ SectionsInit

NextForm ==
  \/ \E name \in FormFields, value \in FieldValues :
       handleInputChange(name, value)
  \/ handleSubmit
  \/ \E outcome \in Outcomes : FormResponse(outcome)

SpecForm == Init /\ [][NextForm]_vars

NextSmooth == SmoothFrame

\* a loop re-queues itself on every frame, so its next frame always comes
SpecSmooth == SmoothInit /\ [][NextSmooth]_vars /\ WF_vars(SmoothFrame)


NextStore ==
  \/ \E key \in Keys, progress \in StoreValues : Update(key, progress)
  \/ \E l \in EnvListeners : subscribe(l)
  \/ \E l \in EnvListeners : unsubscribe(l)
  \/ getSnapshot
  \/ ListenerReturns
  \/ \E l \in EnvListeners : ListenerSubscribes(l)
  \/ \E l \in EnvListeners : ListenerUnsubscribes(l)

SpecStore == Init /\ [][NextStore]_vars

\* MoonReveal with the re-entry section, the writer of the progress it reads
NextMoon ==
  \/ MoonMount
  \/ animateSmooth
  \/ \E p \in MoonValues : MoonTrigger1(p)
  \/ \E p \in MoonValues : MoonTrigger2(p)
  \/ MoonUnmount
  \/ \E p \in MoonValues : ReentryMount(p)
  \/ \E p \in MoonValues : ReentryTrigger(p)
  \/ \E p \in MoonValues : ReentryRefresh(p)
  \/ ReentryUnmount
  \/ ReactCommit

SpecMoon == Init /\ [][NextMoon]_vars

\* the drivers that run their own requestAnimationFrame loop, mounted and
\* torn down in any order
NextTeardown ==
  \/ MoonMount
  \/ animateSmooth
  \/ \E p \in TeardownValues : MoonTrigger1(p)
  \/ \E p \in TeardownValues : MoonTrigger2(p)
  \/ MoonUnmount
  \/ \E isMobile, permissionApi \in BOOLEAN : FaceMount(isMobile, permissionApi)
  \/ \E p \in TeardownValues : FaceTrigger(p)
  \/ FaceAnimate
  \/ FaceFallbackFrame
  \/ \E granted \in BOOLEAN : GyroscopePermission(granted)
  \/ DeviceOrientation
  \/ FaceUnmount
  \/ CloudMount
  \/ CloudAnimate
  \/ CloudUnmount
  \/ ReactCommit

SpecTeardown == Init /\ [][NextTeardown]_vars

\* CloudAtmosphere with the re-entry section, whose progress decides whether
\* the cloud layers exist
CloudValues == {0, 60}

NextCloud ==
  \/ CloudMount
  \/ CloudAnimate
  \/ CloudUnmount
  \/ \E p \in CloudValues : ReentryMount(p)
  \/ \E p \in CloudValues : ReentryTrigger(p)
  \/ \E p \in CloudValues : ReentryRefresh(p)
  \/ ReentryUnmount
  \/ ReactCommit

SpecCloud == Init /\ [][NextCloud]_vars

\* MoonReveal's two scroll triggers, at progress values on both sides of
\* the windows of the embossed text
TextValues == {0, 50, 65, 100}

NextText ==
  \/ MoonMount
  \/ animateSmooth
  \/ \E p \in TextValues : MoonTrigger1(p)
  \/ \E p \in TextValues : MoonTrigger2(p)
  \/ MoonUnmount

SpecText == Init /\ [][NextText]_vars

\* MoonReveal through section 3 and the start of section 4, with no limit
\* on the number of frames
FadeValues == {0, 60}
FadeOutValues == {0, 25}

FadeInit == StoreInit /\ DriversStart /\ frames = -1 /\ AuxInit

NextFade ==
  \/ MoonMount
  \/ animateSmooth
  \/ \E p \in FadeValues : MoonTrigger1(p)
  \/ \E p \in FadeValues : MoonTrigger2(p)
  \/ MoonUnmount
  \/ \E p \in FadeOutValues : ReentryMount(p)
  \/ \E p \in FadeOutValues : ReentryTrigger(p)
  \/ ReentryUnmount
  \/ ReactCommit

\* a mounted loop re-queues itself on every frame, and React commits every
\* re-render it has scheduled
SpecFade ==
  FadeInit /\ [][NextFade]_vars /\ WF_vars(animateSmooth)
    /\ WF_vars(ReactCommit)

\* Rocket3D alone: its trigger, its frame callback and React's commits
RocketValues == {0, 50, Scale}

NextRocket ==
  \/ \E p \in RocketValues : RocketMount(p)
  \/ \E p \in RocketValues, throttled \in BOOLEAN :
       RocketTrigger(p, throttled)
  \/ \E p \in RocketValues : RocketRefresh(p)
  \/ RocketFrame
  \/ RocketUnmount
  \/ ReactCommit

SpecRocket == Init /\ [][NextRocket]_vars

\* TypewriterText with a word list that stays the same
TypewriterSpecInit ==
  /\ StoreInit
  /\ DriversInit
  /\ calc = NoCalc
  /\ smooth = NoSmooth
  /\ form = FormInit
  /\ cloudscape = CloudscapeInit
  /\ typewriter \in {TypewriterStart(words) : words \in WordLists}
  /\ loading = LoadingInit
  /\ trail = TrailInit

\* LoadingScreen: timers that are pending fire, and React renders a changed
\* snapshot
NextLoading ==
  \/ LoadingMount
  \/ signalReady
  \/ ProgressTick
  \/ MinTimeTimer
  \/ LoadingCommit
  \/ CompleteTimer
  \/ LoadingUnmount

SpecLoading ==
  /\ Init
  /\ [][NextLoading]_vars
  /\ WF_vars(LoadingCommit)
  /\ WF_vars(CompleteTimer)

\* the trail of Rocket3D: the interval keeps firing while Rocket3D is mounted
NextTrail ==
  \/ \E g \in TrailGestures, v \in BOOLEAN : TrailStartScroll(g, v)
  \/ TrailStopScroll
  \/ TrailTick

SpecTrail == Init /\ [][NextTrail]_vars /\ WF_vars(TrailTick)

NextTypewriter ==
  \/ TypewriterMount
  \/ TypeCharacter
  \/ TypingDone
  \/ PauseOver
  \/ DeleteCharacter
  \/ DeletingDone
  \/ SelectNext

SpecTypewriter == TypewriterSpecInit /\ [][NextTypewriter]_vars

\* the cloudscape text under scrolling through sections 5 and 6
NextCloudscape ==
  \/ \E y \in ScrollPositions : CloudscapeScroll(y)
  \/ CloudscapeTrigger
  \/ CityscapeTrigger
  \/ CloudscapeCommit

SpecCloudscape == Init /\ [][NextCloudscape]_vars

\* the page: Home mounts the six drivers in document order, then the user
\* scrolls down through the sections
PageOrder == <<"Rocket3D", "MoonReveal", "CloudAtmosphere", "MyFace",
               "Satellite3D", "ReentrySection">>

Before(driver) ==
  {PageOrder[i] : i \in {j \in 1..Len(PageOrder) :
                           \E k \in (j + 1)..Len(PageOrder) :
                             PageOrder[k] = driver}}

Mounting(driver) == mounted = Before(driver)

PageMounted == mounted = Drivers

NextPage ==
  \/ Mounting("Rocket3D") /\ \E p \in PageLoadValues : RocketMount(p)
  \/ Mounting("MoonReveal") /\ MoonMount
  \/ Mounting("CloudAtmosphere") /\ CloudMount
  \/ Mounting("MyFace")
       /\ \E isMobile, permissionApi \in BOOLEAN :
            FaceMount(isMobile, permissionApi)
  \/ Mounting("Satellite3D") /\ \E p \in PageLoadValues : SatelliteMount(p)
  \/ Mounting("ReentrySection") /\ \E p \in PageLoadValues : ReentryMount(p)
  \/ PageMounted /\ ReactCommit
  \/ PageMounted /\ animateSmooth
  \/ PageMounted /\ \E p \in PageValues : MoonTrigger1(p)
  \/ PageMounted /\ \E p \in PageValues : MoonTrigger2(p)
  \/ PageMounted /\ \E p \in PageValues : ReentryTrigger(p)
  \/ PageMounted /\ \E p \in PageValues : ReentryRefresh(p)
  \/ PageMounted /\ \E p \in PageValues, throttled \in BOOLEAN :
                      RocketTrigger(p, throttled)
  \/ PageMounted /\ \E p \in PageValues : RocketRefresh(p)
  \/ PageMounted /\ RocketFrame
  \/ PageMounted /\ \E p \in PageValues : SatelliteTrigger(p)
  \/ PageMounted /\ SatelliteFrame
  \/ PageMounted /\ \E p \in PageValues : FaceTrigger(p)
  \/ PageMounted /\ FaceAnimate
  \/ PageMounted /\ FaceFallbackFrame
  \/ PageMounted /\ \E granted \in BOOLEAN : GyroscopePermission(granted)
  \/ PageMounted /\ DeviceOrientation
  \/ PageMounted /\ CloudAnimate

SpecPage == Init /\ [][NextPage]_vars

\* ======================================================= Progress Store
\* the step is a call of one of the update functions
IsUpdateCall == call'.n # call.n

\* C1: an update call that repeats the previous update call (same section,
\* same value) changes neither the stored state nor the snapshot reference,
\* starts no notification and schedules no re-render, so the two calls
\* together make at most one notification round.
C1_SecondCallIsNoOp ==
  [][(IsUpdateCall /\ call'.key = call.key /\ call'.value = call.value)
       => /\ globalState' = globalState
          /\ globalRef' = globalRef
          /\ pending' = << >>
          /\ needsRender' = needsRender
          /\ ~call'.changed]_vars

C1_Witness ==
  /\ call.repeat
  /\ Len(listeners) >= 1
  /\ globalState[call.key] = call.value
  /\ call.value # 0

\* C2: after an update call the snapshot holds the written value under the
\* section's key and every other key holds the value it had before the call.
C2_UpdateFrame ==
  [][IsUpdateCall
       => /\ globalState'[call'.key] = call'.value
          /\ \A k \in Keys \ {call'.key} : globalState'[k] = globalState[k]]_vars

C2_Witness ==
  /\ call.key = "section4"
  /\ call.changed
  /\ globalState.section4 = 50
  /\ globalState.section2 = 50
  /\ globalState.section3 = 0

C4_RefChangesOnEveryCall ==
  [][/\ IsUpdateCall => globalRef' # globalRef
     /\ ~IsUpdateCall => globalRef' = globalRef
     /\ readFresh' => heldRef' = globalRef']_vars

\* C4 (amended): the reference changes exactly on the update calls whose
\* value differs from the stored one; it is the same on every getSnapshot
\* call made while no such update happens (an update call with the stored
\* value leaves it unchanged).
C4_RefChangesOnChange ==
  [][/\ IsUpdateCall => (globalRef' # globalRef <=> call'.changed)
     /\ IsUpdateCall => (call'.changed <=> globalState' # globalState)
     /\ ~IsUpdateCall => globalRef' = globalRef
     /\ readFresh' => heldRef' = globalRef']_vars

C4_Witness ==
  /\ call.changed
  /\ readFresh
  /\ heldRef = globalRef
  /\ globalRef # 0

\* C5: a subscribed listener is invoked by every update that changes the
\* stored value; subscribe hands out an unsubscribe handle; once the handle
\* was called (and until the listener subscribes again) the listener is in
\* neither the set nor the running iteration and is not invoked; calling a
\* handle removes no other listener.
C5_SubscribeUnsubscribe ==
  [][/\ \A l \in EnvListeners :
          (call'.n = call.n /\ call'.invoked[l] # call.invoked[l])
             => (l \notin cancelled /\ l \in Range(listeners))
     /\ \A l \in cancelled' : l \notin Range(listeners') /\ l \notin Range(pending')
     /\ \A l \in cancelled' \ cancelled :
          Range(listeners) \ {l} \subseteq Range(listeners')
     /\ \A l \in Range(listeners') \ Range(listeners) : l \in handles'
     /\ (pending' = << >> /\ call'.changed)
          => \A l \in call'.atCall \ call'.removed : call'.invoked[l] >= 1]_vars

C5_Witness ==
  /\ cancelled # {}
  /\ listeners # << >>
  /\ pending = << >>
  /\ call.changed
  /\ call.atCall \cap cancelled = {}
  /\ \E l \in cancelled : call.invoked[l] = 0
  /\ \E l \in call.atCall : call.invoked[l] = 1

\* ======================================================= Section drivers
\* C6 (as stated): the mirrored progress a frame callback of MoonReveal or
\* Rocket3D uses is the value the store holds when the callback runs
C6_FrameReadsCurrentValue == staleReads \cap {"MoonReveal", "Rocket3D"} = {}

\* C7 (as stated): a frame of MoonReveal's loop that runs while its section-3
\* progress is 0 and the section-4 progress is above 0 applies the section-4
\* fade-out to the moon
C7_FadeAtZeroProgress ==
  [][(animateSmooth /\ moon.section3ProgressRef = 0
        /\ moon.section4ProgressRef > 0)
       => moon'.target = calculateFadeOut(moon.section4ProgressRef,
                                          FadeOutStart, FadeOutEnd)]_vars

\* C7 (amended): a frame of MoonReveal's loop applies the section-4 fade-out
\* (the target opacity becomes the fade-out, the moon is drawn at the opacity
\* moved toward it) exactly while its section-3 progress is above 0; at
\* section-3 progress 0 the frame leaves the moon as it is
C7_FadeWhileSection3Active ==
  [][animateSmooth
       => IF moon.section3ProgressRef > 0
            THEN /\ moon'.target = calculateFadeOut(moon.section4ProgressRef,
                                                    FadeOutStart, FadeOutEnd)
                 /\ dom'.moon = moon'.current
            ELSE UNCHANGED <<moon, dom>>]_vars

\* section 3 under way, section 4 begun, and the loop has faded the moon
C7_Witness ==
  /\ moon.section3ProgressRef > 0
  /\ moon.section4ProgressRef > 0
  /\ moon.target = calculateFadeOut(moon.section4ProgressRef,
                                    FadeOutStart, FadeOutEnd)
  /\ dom.moon < Scale
  /\ dom.moon = moon.current

\* C8 (as stated): no callback of a driver runs after the driver was torn
\* down
C8_NoCallbackAfterTeardown == late = {}

\* C9: section2 is written only by Rocket3D, section3 only by Satellite3D,
\* section4 only by ReentrySection
C9_SingleWriterPerKey ==
  /\ keyWriters["section2"] \subseteq {"Rocket3D"}
  /\ keyWriters["section3"] \subseteq {"Satellite3D"}
  /\ keyWriters["section4"] \subseteq {"ReentrySection"}

\* every key has been written by its driver's scroll observer
C9_Witness ==
  /\ keyWriters = [k \in Keys |->
                     CASE k = "section2" -> {"Rocket3D"}
                       [] k = "section3" -> {"Satellite3D"}
                       [] OTHER -> {"ReentrySection"}]
  /\ \A k \in Keys : globalState[k] = Scale

\* C10: no visual element is written by two different drivers
C10_DisjointElements ==
  \A e \in Elements : Cardinality(elemWriters[e]) <= 1

\* the loops of MoonReveal, MyFace and CloudAtmosphere and the observers of
\* the other drivers have all written their elements
C10_Witness ==
  /\ elemWriters["moon"] = {"MoonReveal"}
  /\ elemWriters["faceWrapper"] = {"MyFace"}
  /\ elemWriters["cloud"] = {"CloudAtmosphere"}
  /\ elemWriters["reentryText"] = {"ReentrySection"}
  /\ elemWriters["satelliteText"] = {"Satellite3D"}


CalledMapRange == calc.fn = "mapRange"
CalledFade == calc.fn = "fade"

\* C12: the result of mapRange always lies between outMin and outMax,
\* whatever the value and whichever way round the ranges are given
C12_ResultWithinOutputRange ==
  CalledMapRange =>
    /\ Min(calc.outMin, calc.outMax) <= calc.out
    /\ calc.out <= Max(calc.outMin, calc.outMax)

\* a value beyond the input range was mapped and came out at the edge of a
\* proper output range
C12_Witness ==
  /\ CalledMapRange
  /\ calc.inMin < calc.inMax
  /\ calc.value > calc.inMax
  /\ calc.outMin < calc.outMax
  /\ calc.out = calc.outMax

\* C13 (as stated): for inMin # inMax, mapRange(inMin) is outMin and
\* mapRange(inMax) is outMax
C13_EndpointsMapToEndpoints ==
  (CalledMapRange /\ calc.inMin # calc.inMax) =>
    /\ (calc.value = calc.inMin => calc.out = calc.outMin)
    /\ (calc.value = calc.inMax => calc.out = calc.outMax)

\* C14: with inMin < inMax and the default output range, a larger value never
\* maps to a smaller result
C14_Monotone ==
  (/\ CalledMapRange
   /\ calc.inMin < calc.inMax
   /\ calc.outMin = 0
   /\ calc.outMax = Scale
   /\ calc.value <= calc.other) => calc.out <= calc.out2

\* two values inside the input range were mapped to strictly ordered results
C14_Witness ==
  /\ CalledMapRange
  /\ calc.inMin < calc.inMax
  /\ calc.outMin = 0
  /\ calc.outMax = Scale
  /\ calc.value < calc.other
  /\ calc.out < calc.out2
  /\ calc.out2 < Scale

\* C15: for the same progress and window, calculateFadeIn and
\* calculateFadeOut add up to one
C15_FadesAddUpToOne ==
  CalledFade => calc.out + calc.out2 = Scale

\* both fades were computed part-way through a window
C15_Witness ==
  /\ CalledFade
  /\ calc.out > 0
  /\ calc.out2 > 0
  /\ calc.out + calc.out2 = Scale

\* C16 (as stated): every mapRange given an empty input range
\* (inMin = inMax) returns the lower end of its output range and never
\* divides by zero
C16_EmptyRangeGivesOutMin ==
  /\ (CalledMapRange /\ calc.inMin = calc.inMax) => calc.out = calc.outMin
  /\ (calc.fn = "MoonReveal.mapRange" /\ calc.inMin = calc.inMax) =>
       calc.out = 0

C18_ProgressWithinUnitInterval ==
  /\ \A k \in Keys : globalState[k] \in 0..Scale
  /\ call = NoCall => \A k \in Keys : globalState[k] = 0

\* a section's progress was above 0 and the last update call took it back
\* to 0 while another section's progress is above 0
C18_Witness ==
  /\ call # NoCall
  /\ call.changed
  /\ call.value = 0
  /\ globalState[call.key] = 0
  /\ \E k \in Keys : globalState[k] > 0

\* ------------------------------------------------------- smoothing
Distance == IF smooth.current >= smooth.target
              THEN smooth.current - smooth.target
              ELSE smooth.target - smooth.current

\* C19: a smoothing step uses a blend factor strictly between 0 and 1, leaves
\* the current value between its previous value and the target, never
\* increases the distance to a fixed target, and the current value
\* eventually is nearer to the target than every positive tolerance the
\* model's numbers can express
C19_SmoothingApproachesTarget ==
  /\ [][SmoothFrame
          => /\ 0 < smooth.pct
             /\ smooth.pct < 100
             /\ Min(smooth.current, smooth.target) <= smooth'.current
             /\ smooth'.current <= Max(smooth.current, smooth.target)
             /\ Distance' <= Distance]_vars
  /\ <>(Distance = 0)

\* a value that started away from its target has moved part of the way
C19_Witness ==
  /\ smooth.pct = CLOUD_SMOOTH
  /\ smooth.target = Scale
  /\ 0 < smooth.current
  /\ smooth.current < 30
  /\ Distance > 0


C21_TextOpacityWellDefined ==
  [][\A p \in TextValues :
       MoonTrigger1(p)
         => LET s3p == moon.section3ProgressRef
                written == MoonTextOpacity(p, s3p)
            IN  /\ written \in 0..Scale
                /\ dom'.moonText = written
                /\ s3p < 50
                     => written = EaseOutQuad(mapRange(p, 50, 80, 0, Scale))
                /\ s3p > 50 => written = 0]_vars


\* ------------------------------------------------------- cloudscape text
\* C22 (as stated): once the triggers and the section-6 effect have handled
\* a scroll, the opacity of the cloudscape text is the eased fade-in of the
\* section-5 progress times the section-6 fade-out, whichever path wrote it
C22_TextOpacityComposition ==
  (cloudscape.due = {} /\ cloudscape.rendered6 = cloudscape.section6)
    => cloudscape.opacity =
         (CloudscapeFadeIn(cloudscape.scrollProgressRef)
            * Section6FadeOut(cloudscape.section6)) \div Scale


\* ------------------------------------------------------- the moon's fade
\* C23: when MoonReveal's section-3 trigger reports progress <= 0 the loop
\* is deactivated and the moon's displayed, target and smoothed opacity and
\* the mask's opacity are set to 1; while the loop is inactive no frame
\* changes the moon's opacity, and only a report of progress > 0 by the
\* section-3 trigger activates the loop again
C23_MoonResetOnScrollBack ==
  [][/\ (\E p \in FadeValues : p <= 0 /\ MoonTrigger2(p))
          => /\ ~moon'.isSection3Active
             /\ dom'.moon = Scale
             /\ dom'.mask = Scale
             /\ moon'.target = Scale
             /\ moon'.current = Scale
     /\ (animateSmooth /\ ~moon.isSection3Active)
          => /\ dom'.moon = dom.moon
             /\ moon'.current = moon.current
     /\ (~moon.isSection3Active /\ moon'.isSection3Active)
          => \E p \in FadeValues : p > 0 /\ MoonTrigger2(p)]_vars

\* the section-3 trigger has reported progress above 0 and then 0 again
\* with section 4 under way: the loop is inactive and the moon is back at 1
C23_Witness ==
  /\ "MoonReveal" \in mounted
  /\ ~moon.isSection3Active
  /\ moon.section3ProgressRef = 0
  /\ moon.section4ProgressRef >= FadeOutEnd
  /\ "MoonReveal" \in elemWriters["moonGlow"]
  /\ "MoonReveal" \in staleReads
  /\ dom.moon = Scale
  /\ dom.mask = Scale
  /\ moon.current = Scale
  /\ moon.target = Scale

\* C24: in every frame of the active loop the mask's opacity is 0 exactly
\* when the smoothed opacity is below 0.01 and 1 otherwise; and if MoonReveal
\* stays mounted with section 3 active and the section-4 progress at or above
\* 0.25, the smoothed opacity eventually is below 0.01 with the mask at 0
C24_MoonFadeOutCompletes ==
  /\ [][(animateSmooth /\ moon.isSection3Active)
          => /\ dom'.mask \in {0, Scale}
             /\ dom'.mask = 0 <=> moon'.current < 1]_vars
  /\ <>[](/\ "MoonReveal" \in mounted
          /\ moon.isSection3Active
          /\ globalState.section4 >= FadeOutEnd)
       => <>(moon.current < 1 /\ dom.mask = 0)

\* section 3 active, section 4 at 0.25, and the loop has faded the moon out
\* and hidden the mask
C24_Witness ==
  /\ "MoonReveal" \in mounted
  /\ moon.isSection3Active
  /\ globalState.section4 >= FadeOutEnd
  /\ moon.target = 0
  /\ moon.current < 1
  /\ dom.moon = 0
  /\ dom.mask = 0


\* ------------------------------------------------------- the rocket
\* C25: in every frame the rocket is visible exactly when the section-2
\* progress the frame callback sees is below 1; a frame that hides it
\* reports a screen position with visible false and no booster position
C25_RocketVisibility ==
  [][RocketFrame
       => LET seen == rocket.section2ProgressRef
          IN  /\ dom'.rocket # -1 <=> seen < Scale
              /\ seen < Scale => rocket'.screenPos = "booster"
              /\ seen >= Scale => rocket'.screenPos = "hidden"]_vars

\* section 2 is complete, React has synced the ref, and a frame has hidden
\* the rocket and reported visible false
C25_Witness ==
  /\ "Rocket3D" \in mounted
  /\ rocket.section2ProgressRef = Scale
  /\ dom.rocket = -1
  /\ rocket.screenPos = "hidden"

\* C29 (as stated): once scroll events have stopped, Rocket3D's scrollProgress
\* state equals the progress the trigger reported last, which is the value
\* in scrollProgressRef and in the store's section2; nothing but a scroll
\* event changes any of the three, so they agree in every state
C29_ProgressStateConverges ==
  "Rocket3D" \in mounted
    => /\ rocket.scrollProgress = rocket.scrollProgressRef
       /\ rocket.scrollProgressRef = globalState.section2


\* ------------------------------------------------------- the typewriter
PhaseCycle == {<<"typing", "pausing">>, <<"pausing", "deleting">>,
               <<"deleting", "selecting_next">>,
               <<"selecting_next", "typing">>}

\* C26: the phase changes only along typing, pausing, deleting,
\* selecting_next, typing; it leaves typing only with the whole current
\* word displayed and deleting only with nothing displayed; after the last
\* word the queue is reshuffled and the index restarts at 0; with an empty
\* word list neither the phase nor the text ever changes
C26_TypewriterPhaseOrder ==
  [][/\ typewriter'.phase # typewriter.phase
          => <<typewriter.phase, typewriter'.phase>> \in PhaseCycle
     /\ (typewriter.phase = "typing" /\ typewriter'.phase # "typing")
          => /\ typewriter.displayText = getCurrentWord
             /\ typewriter'.displayText = typewriter.displayText
     /\ (typewriter.phase = "deleting" /\ typewriter'.phase # "deleting")
          => typewriter.displayText = << >>
     /\ (typewriter.phase = "selecting_next"
           /\ typewriter'.phase # "selecting_next")
          => IF typewriter.currentWordIndex + 1 >= Len(typewriter.wordQueue)
               THEN /\ typewriter'.currentWordIndex = 0
                    /\ typewriter'.wordQueue \in shuffleArray(typewriter.words)
               ELSE /\ typewriter'.currentWordIndex
                         = typewriter.currentWordIndex + 1
                    /\ typewriter'.wordQueue = typewriter.wordQueue
     /\ typewriter.words = << >>
          => /\ typewriter'.phase = typewriter.phase
             /\ typewriter'.displayText = typewriter.displayText]_vars

\* the last word of a three-word queue is fully typed and the cursor pauses
C26_Witness ==
  /\ Len(typewriter.wordQueue) = 3
  /\ typewriter.currentWordIndex = 2
  /\ typewriter.phase = "pausing"
  /\ typewriter.displayText = getCurrentWord
  /\ Len(typewriter.displayText) = 3

\* C27: isLoaded is never true unless the minimum-time timer has fired,
\* whatever signalReady did before; isLoaded never goes back to false; the
\* overflow style is "hidden" whenever the loading screen is mounted and
\* isLoaded is false; and once the minimum-time timer has fired, a loading
\* screen that stays mounted gets isLoaded = true, with or without
\* signalReady.
C27_LoadingGate ==
  /\ [](loading.isLoaded => loading.minTimeElapsed)
  /\ [][loading.isLoaded => loading'.isLoaded]_vars
  /\ []((loading.mounted /\ ~loading.isLoaded) => loading.overflow = "hidden")
  /\ ((loading.mounted /\ loading.minTimeElapsed)
        ~> (loading.isLoaded \/ ~loading.mounted))

\* the same with the last part for every run: once the minimum-time timer has
\* fired isLoaded becomes true, whether or not the loading screen stays mounted
C27_LoadsWhateverHappens ==
  /\ [](loading.isLoaded => loading.minTimeElapsed)
  /\ [][loading.isLoaded => loading'.isLoaded]_vars
  /\ []((loading.mounted /\ ~loading.isLoaded) => loading.overflow = "hidden")
  /\ (loading.minTimeElapsed ~> loading.isLoaded)

\* loading has completed without signalReady, and the render that saw it has
\* released the scroll lock
C27_Witness ==
  /\ loading.mounted
  /\ loading.isLoaded
  /\ ~loading.assetsReady
  /\ loading.rendered.isLoaded
  /\ loading.overflow = ""

\* C28: after every tick of the trail interval the list holds at most 26
\* points, each with an opacity above 0 and below the opacity it had before
\* the tick; a tick adds a point only when scrolling is not idle, progress is
\* above 0.05 and the booster position is visible; and while scrolling stays
\* idle the list becomes empty and a tick then leaves it unchanged.
C28_TrailBoundedAndDrains ==
  /\ [](Len(trail.trails) <= TrailKeep + 1)
  /\ [](\A i \in 1..Len(trail.trails) :
          /\ trail.trails[i].opacity > 0
          /\ trail.trails[i].opacity < trail.trails[i].before)
  /\ [][TrailTick /\ trail'.added
          => ~trail'.isScrollIdle /\ trail'.progress > 50 /\ trail.visible]_vars
  /\ [][TrailTick /\ trail'.isScrollIdle /\ Len(trail.trails) = 0
          => trail'.trails = trail.trails]_vars
  /\ (trail.isScrollIdle ~> (Len(trail.trails) = 0 \/ ~trail.isScrollIdle))

\* the list is full: the last tick added a point and left 26
C28_Witness ==
  /\ Len(trail.trails) = TrailKeep + 1
  /\ trail.added
  /\ ~trail.isScrollIdle


====
